---- MODULE Spec2Model ----
(***************************************************************************)
(* Model of ciscoconfparse/ccp_util.py: the IPv4Obj / IPv6Obj address      *)
(* values (construction, derived views, ordering, arithmetic, containment) *)
(* and the longest-match route lookup their ordering is designed for.      *)
(*                                                                         *)
(* Scaling.  TLC integers are 32 bit, so the address families are scaled:  *)
(* an IPv4 address is Octets4 octets of OctetBits bits (source: 4 octets   *)
(* of 8 bits), an IPv6 address is Hextets6 groups of HextetBits bits       *)
(* (source: 8 groups of 16 bits).  Every formula of the source is kept,    *)
(* with 32, 128, 256, 65536, 4294967295 and 2^128-1 replaced by the        *)
(* scaled MaxPrefix4, MaxPrefix6, OctetBase, HextetBase, Max4 and Max6.    *)
(*                                                                         *)
(* The second half models CiscoRange: the parse of an interface range      *)
(* text into a prefix and a list of items, insert, append, remove, del,    *)
(* == and compressed_str.  Texts are sequences of one-character strings    *)
(* over Alphabet, and str() / int() work on them digit by digit.  The      *)
(* decimal digits are scaled to Digits (base Len(Digits)), so that a       *)
(* two-digit index, which sorts as text before a one-digit one, is         *)
(* already among the indexes 0..MaxIndex.                                  *)
(*                                                                         *)
(* L4Object is modelled by its constructor on port_spec texts whose ports  *)
(* are numbers; the port range 1..65534 is scaled to 1..PortEnd - 1.       *)
(***************************************************************************)
EXTENDS Integers, Sequences, FiniteSets, TLC

\* ---------------------------------------------------------------- bounds
Octets4 == 2
Hextets6 == 3
MaxDelta == 2
MaxRoutes == 2
MaxIndex == 3
MaxPosition == 2

\* ------------------------------------------------- scaled program constants
OctetBits == 1
HextetBits == 1
PadWidth == 3
PortEnd == 6
OctetBase == 2 ^ OctetBits
HextetBase == 2 ^ HextetBits
MaxPrefix4 == Octets4 * OctetBits
MaxPrefix6 == Hextets6 * HextetBits
Max4 == 2 ^ MaxPrefix4 - 1
Max6 == 2 ^ MaxPrefix6 - 1

None == [dna |-> "None", ip |-> 0, net |-> 0, plen |-> 0]
NoErr == "none"

\* ------------------------------------------------------------ small helpers
RECURSIVE DigitsToInt(_, _)
\* int value of a most-significant-first digit sequence in the given base
DigitsToInt(ds, base) ==
    IF Len(ds) = 0 THEN 0
    ELSE DigitsToInt(SubSeq(ds, 1, Len(ds) - 1), base) * base + ds[Len(ds)]

\* the n-digit, most-significant-first expansion of v in the given base
IntToDigits(v, n, base) == [i \in 1..n |-> (v \div (base ^ (n - i))) % base]

Reverse(s) == [i \in 1..Len(s) |-> s[Len(s) + 1 - i]]

RECURSIVE SumSeq(_)
SumSeq(s) == IF Len(s) = 0 THEN 0 ELSE s[1] + SumSeq(Tail(s))

\* ------------------------------------------------- the ipaddress library
\* str(IPv4Address): the dotted octets, most significant first
IPv4Address_str(ip) == IntToDigits(ip, Octets4, OctetBase)
\* IPv6Address.exploded: the colon separated groups, most significant first
IPv6Address_exploded(ip) == IntToDigits(ip, Hextets6, HextetBase)

\* IPv4Address(text): every octet must be a legal octet value
IPv4Address_parse(octs) ==
    IF \E i \in 1..Len(octs) : octs[i] >= OctetBase
    THEN [ok |-> FALSE, err |-> "AddressValueError", ip |-> 0]
    ELSE [ok |-> TRUE, err |-> NoErr, ip |-> DigitsToInt(octs, OctetBase)]

\* IPv6Address(text) for a colon-hex text given by its groups
IPv6Address_parse(grps) ==
    IF \E i \in 1..Len(grps) : grps[i] >= HextetBase
    THEN [ok |-> FALSE, err |-> "AddressValueError", ip |-> 0]
    ELSE [ok |-> TRUE, err |-> NoErr, ip |-> DigitsToInt(grps, HextetBase)]

\* a range check that lets the first integer past the maximum through
IPv4Address_int_past_max(n) ==
    IF n < 0 \/ n > Max4 + 1
    THEN [ok |-> FALSE, err |-> "AddressValueError", ip |-> 0]
    ELSE [ok |-> TRUE, err |-> NoErr, ip |-> n]

\* IPv4Address(int) / IPv6Address(int): range check of the integer
IPv4Address_int(n) ==
    IF n < 0 \/ n > Max4
    THEN [ok |-> FALSE, err |-> "AddressValueError", ip |-> 0]
    ELSE [ok |-> TRUE, err |-> NoErr, ip |-> n]

IPv6Address_int(n) ==
    IF n < 0 \/ n > Max6
    THEN [ok |-> FALSE, err |-> "AddressValueError", ip |-> 0]
    ELSE [ok |-> TRUE, err |-> NoErr, ip |-> n]

\* address & netmask(plen) for an address of the given number of bits
MaskAddr(ip, plen, bits) == ip - (ip % (2 ^ (bits - plen)))

\* IPvXNetwork("addr/plen", strict): prefix range check, host-bit check when
\* strict, and the masked network address
IPNetwork(ip, plen, bits, strict) ==
    IF plen < 0 \/ plen > bits
    THEN [ok |-> FALSE, err |-> "NetmaskValueError", net |-> 0, plen |-> 0]
    ELSE IF strict /\ MaskAddr(ip, plen, bits) # ip
    THEN [ok |-> FALSE, err |-> "ValueError", net |-> 0, plen |-> 0]
    ELSE [ok |-> TRUE, err |-> NoErr, net |-> MaskAddr(ip, plen, bits),
          plen |-> plen]

\* the prefix length a dotted mask denotes: a netmask (ones from the top) is
\* tried first, then a hostmask (ones from the bottom); -1 when neither
PrefixFromMask(m, bits) ==
    IF \E p \in 0..bits : m = (2 ^ bits - 1) - (2 ^ (bits - p) - 1)
    THEN CHOOSE p \in 0..bits : m = (2 ^ bits - 1) - (2 ^ (bits - p) - 1)
    ELSE IF \E p \in 0..bits : m = 2 ^ (bits - p) - 1
    THEN CHOOSE p \in 0..bits : m = 2 ^ (bits - p) - 1
    ELSE -1

\* ------------------------------------------------------- constructor input
\* One record shape for every constructor argument.  t is the argument's type:
\*   "str4"  IPv4 text; kind "addr" (A.B), "mask" (A.B M.M), "len" (A.B/len),
\*           "bad" (text the IPv4 regex does not match)
\*   "str6"  IPv6 text; kind "hex" (colon-hex groups), "dotted" (::groups with a
\*           dotted-quad tail, e.g. ::ffff:1.2.3.4), "bad" (no regex match);
\*           len = -1 stands for a text without "/len"
\*   "int"   an integer n;  "obj" an IPv4Obj / IPv6Obj;  "net4" / "net6" an
\*   ipaddress network value (n, len);  "ip4" / "ip6" an ipaddress address
\*   value n;  "other" any other type
NoArg ==
    [t |-> "other", kind |-> "", addr |-> <<>>, mask |-> <<>>, len |-> 0,
     n |-> 0, obj |-> None]

Str4Args ==
    {[NoArg EXCEPT !.t = "str4", !.kind = "addr", !.addr = a] :
        a \in [1..Octets4 -> 0..OctetBase]}
    \cup {[NoArg EXCEPT !.t = "str4", !.kind = "mask", !.addr = a, !.mask = m] :
        a \in [1..Octets4 -> 0..OctetBase],
        m \in [1..Octets4 -> 0..(OctetBase - 1)]}
    \cup {[NoArg EXCEPT !.t = "str4", !.kind = "len", !.addr = a, !.len = l] :
        a \in [1..Octets4 -> 0..OctetBase], l \in 0..(MaxPrefix4 + 1)}
    \cup {[NoArg EXCEPT !.t = "str4", !.kind = "bad"]}

Str6Args ==
    {[NoArg EXCEPT !.t = "str6", !.kind = "hex", !.addr = a, !.len = l] :
        a \in [1..Hextets6 -> 0..HextetBase], l \in -1..(MaxPrefix6 + 1)}
    \cup {[NoArg EXCEPT !.t = "str6", !.kind = "dotted", !.addr = a, !.len = l] :
        a \in {g \in [1..Hextets6 -> 0..(HextetBase - 1)] : g[1] = 0},
        l \in -1..(MaxPrefix6 + 1)}
    \cup {[NoArg EXCEPT !.t = "str6", !.kind = "bad"]}

IntArgs == {[NoArg EXCEPT !.t = "int", !.n = n] : n \in -1..(Max6 + 1)}

Net4Args ==
    {[NoArg EXCEPT !.t = "net4", !.n = MaskAddr(a, l, MaxPrefix4), !.len = l] :
        a \in 0..Max4, l \in 0..MaxPrefix4}

Net6Args ==
    {[NoArg EXCEPT !.t = "net6", !.n = MaskAddr(a, l, MaxPrefix6), !.len = l] :
        a \in 0..Max6, l \in 0..MaxPrefix6}

IpArgs ==
    {[NoArg EXCEPT !.t = "ip4", !.n = n] : n \in 0..Max4}
    \cup {[NoArg EXCEPT !.t = "ip6", !.n = n] : n \in 0..Max6}

ObjArg(o) == [NoArg EXCEPT !.t = "obj", !.obj = o]

\* ---------------------------------------------------------- the regexes
\* _RGX_IPV4ADDR_NETMASK.search(arg): TypeError for a non-string, no match for
\* text outside the three alternatives, else the groups addr / netmask / masklen
RGX_IPV4ADDR_NETMASK(arg) ==
    IF arg.t \notin {"str4", "str6"} THEN [res |-> "TypeError"]
    ELSE IF arg.t = "str6" \/ arg.kind = "bad" THEN [res |-> "nomatch"]
    ELSE [res |-> "match", addr |-> arg.addr,
          netmask |-> IF arg.kind = "mask" THEN arg.mask ELSE <<>>,
          masklen |-> IF arg.kind = "len" THEN arg.len ELSE -1]

\* the bits of an IPv6 text that a dotted-quad tail occupies
TailBits == Octets4 * OctetBits

\* _RGX_IPV6ADDR.search(arg): the pattern has no "." in it, so on a text with a
\* dotted-quad tail group 'addr' ends before the first dot: it holds the
\* colon-hex groups followed by the first tail octet read as one more group
RGX_IPV6ADDR(arg) ==
    IF arg.t \notin {"str4", "str6"} THEN [res |-> "TypeError"]
    ELSE IF arg.t = "str4" \/ arg.kind = "bad" THEN [res |-> "nomatch"]
    ELSE IF arg.kind = "hex" THEN [res |-> "match", addr |-> arg.addr]
    ELSE LET v == DigitsToInt(arg.addr, HextetBase)
             hi == v \div (2 ^ TailBits)
             d1 == (v \div (2 ^ (TailBits - OctetBits))) % OctetBase
         IN [res |-> "match",
             addr |-> IntToDigits(hi * HextetBase + d1, Hextets6, HextetBase)]

\* ------------------------------------------------------------ construction
Raise(e) == [err |-> e, val |-> None]
Return(dna, ip, nw) ==
    [err |-> NoErr, val |-> [dna |-> dna, ip |-> ip, net |-> nw.net, plen |-> nw.plen]]

\* IPv4Network("addr/mask", strict) on text: the address is parsed first, then
\* the mask (a prefix length or a dotted mask), then the host bits are checked
IPv4Network(octs, plen, strict) ==
    LET a == IPv4Address_parse(octs) IN
    IF ~a.ok THEN [ok |-> FALSE, err |-> a.err, net |-> 0, plen |-> 0]
    ELSE IPNetwork(a.ip, plen, MaxPrefix4, strict)

\* IPv6Network(arg, strict) on the whole text; a text without "/len" is a /128
IPv6Network(arg, strict) ==
    LET a == IPv6Address_parse(arg.addr) IN
    IF ~a.ok THEN [ok |-> FALSE, err |-> a.err, net |-> 0, plen |-> 0]
    ELSE IPNetwork(a.ip, IF arg.len = -1 THEN MaxPrefix6 ELSE arg.len,
                   MaxPrefix6, strict)

\* a constructor whose copy of an object is a host address: the prefix length
\* of the argument is dropped
IPv4Obj_copy_drops_prefixlen(arg, strict) ==
    IF arg.t = "int" /\ IPv4Address_int(arg.n).ok THEN
        Return("IPv4Obj", arg.n, IPNetwork(arg.n, MaxPrefix4, MaxPrefix4, FALSE))
    ELSE IF arg.t = "obj" /\ arg.obj.dna = "IPv4Obj" THEN
        Return("IPv4Obj", arg.obj.ip,
               IPNetwork(arg.obj.ip, MaxPrefix4, MaxPrefix4, FALSE))
    ELSE Raise("ValueError")

\* IPv4Obj.__init__(arg, strict): the object built, or the exception raised
IPv4Obj(arg, strict) ==
    LET mm == RGX_IPV4ADDR_NETMASK(arg) IN
    IF mm.res = "TypeError" THEN
        IF arg.t = "int" THEN
            LET a == IPv4Address_int(arg.n) IN
            IF ~a.ok THEN Raise(a.err)
            ELSE Return("IPv4Obj", a.ip,
                        IPNetwork(a.ip, MaxPrefix4, MaxPrefix4, FALSE))
        ELSE IF arg.t = "obj" /\ arg.obj.dna = "IPv4Obj" THEN
            Return("IPv4Obj", arg.obj.ip,
                   IPNetwork(arg.obj.ip, arg.obj.plen, MaxPrefix4, FALSE))
        ELSE IF arg.t = "net4" THEN
            Return("IPv4Obj", arg.n, [net |-> arg.n, plen |-> arg.len])
        ELSE IF arg.t = "ip4" THEN
            Return("IPv4Obj", arg.n,
                   IPNetwork(arg.n, MaxPrefix4, MaxPrefix4, TRUE))
        ELSE Raise("ValueError")
    ELSE IF mm.res = "nomatch" THEN Raise("AssertionError")
    ELSE
        LET masklen == IF mm.masklen = -1 THEN MaxPrefix4 ELSE mm.masklen
            plen == IF mm.netmask # <<>>
                    THEN PrefixFromMask(DigitsToInt(mm.netmask, OctetBase),
                                        MaxPrefix4)
                    ELSE masklen
            nw == IPv4Network(mm.addr, plen, strict)
        IN IF ~nw.ok THEN Raise(nw.err)
           ELSE Return("IPv4Obj", IPv4Address_parse(mm.addr).ip, nw)

\* IPv6Obj.__init__(arg, strict)
IPv6Obj(arg, strict) ==
    LET mm == RGX_IPV6ADDR(arg) IN
    IF mm.res = "TypeError" THEN
        IF arg.t = "int" THEN
            LET a == IPv6Address_int(arg.n) IN
            IF ~a.ok THEN Raise(a.err)
            ELSE Return("IPv6Obj", a.ip,
                        IPNetwork(a.ip, MaxPrefix6, MaxPrefix6, FALSE))
        ELSE IF arg.t = "obj" /\ arg.obj.dna = "IPv6Obj" THEN
            Return("IPv6Obj", arg.obj.ip,
                   IPNetwork(arg.obj.ip, arg.obj.plen, MaxPrefix6, FALSE))
        ELSE IF arg.t = "net6" THEN
            Return("IPv6Obj", arg.n, [net |-> arg.n, plen |-> arg.len])
        ELSE IF arg.t = "ip6" THEN
            Return("IPv6Obj", arg.n,
                   IPNetwork(arg.n, MaxPrefix6, MaxPrefix6, TRUE))
        ELSE Raise("ValueError")
    ELSE IF mm.res = "nomatch" THEN Raise("AssertionError")
    ELSE
        LET nw == IPv6Network(arg, strict) IN
        IF ~nw.ok THEN Raise(nw.err)
        ELSE LET a == IPv6Address_parse(mm.addr) IN
             IF ~a.ok THEN Raise(a.err) ELSE Return("IPv6Obj", a.ip, nw)

\* ------------------------------------------------------------ derived views
\* IPv4Obj.as_decimal: the dotted octets, reversed, weighted by 256 ** idx
IPv4Obj_as_decimal(self) ==
    LET num_strings == Reverse(IPv4Address_str(self.ip)) IN
    SumSeq([idx \in 1..Len(num_strings) |->
               num_strings[idx] * (OctetBase ^ (idx - 1))])

\* IPv4Obj.as_decimal_network (the definition in force, the second one)
IPv4Obj_as_decimal_network(self) ==
    LET num_strings == Reverse(IPv4Address_str(self.net)) IN
    SumSeq([idx \in 1..Len(num_strings) |->
               num_strings[idx] * (OctetBase ^ (idx - 1))])

IPv6Obj_as_decimal(self) ==
    LET num_strings == Reverse(IPv6Address_exploded(self.ip)) IN
    SumSeq([idx \in 1..Len(num_strings) |->
               num_strings[idx] * (HextetBase ^ (idx - 1))])

IPv6Obj_as_decimal_network(self) ==
    LET num_strings == Reverse(IPv6Address_exploded(self.net)) IN
    SumSeq([idx \in 1..Len(num_strings) |->
               num_strings[idx] * (HextetBase ^ (idx - 1))])

IPv4Obj_numhosts(self) == 2 ^ (MaxPrefix4 - self.plen)
IPv6Obj_numhosts(self) == 2 ^ (MaxPrefix6 - self.plen)

\* attribute lookup on a value of either class (Python's dynamic dispatch)
IsObj(v) == v.dna \in {"IPv4Obj", "IPv6Obj"}
prefixlen(v) == v.plen
as_decimal(v) ==
    IF v.dna = "IPv4Obj" THEN IPv4Obj_as_decimal(v) ELSE IPv6Obj_as_decimal(v)
as_decimal_network(v) ==
    IF v.dna = "IPv4Obj" THEN IPv4Obj_as_decimal_network(v)
    ELSE IPv6Obj_as_decimal_network(v)
numhosts(v) ==
    IF v.dna = "IPv4Obj" THEN IPv4Obj_numhosts(v) ELSE IPv6Obj_numhosts(v)

\* the prefixlen setter of either class: the network is rebuilt from the host
\* address; an illegal length raises and leaves the object as it was
\* a setter that stores the network address as the host address
IPv4Obj_set_prefixlen_masking_host(self, arg) ==
    LET nw == IPNetwork(self.ip, arg, MaxPrefix4, FALSE) IN
    IF ~nw.ok THEN [err |-> nw.err, val |-> self]
    ELSE Return("IPv4Obj", nw.net, nw)

\* a setter that stores the nearest legal length instead of raising
IPv4Obj_set_prefixlen_clamping(self, arg) ==
    LET p == IF arg < 0 THEN 0 ELSE IF arg > MaxPrefix4 THEN MaxPrefix4 ELSE arg
    IN Return("IPv4Obj", self.ip, IPNetwork(self.ip, p, MaxPrefix4, FALSE))

IPv4Obj_set_prefixlen(self, arg) ==
    LET nw == IPNetwork(self.ip, arg, MaxPrefix4, FALSE) IN
    IF ~nw.ok THEN [err |-> nw.err, val |-> self]
    ELSE Return("IPv4Obj", self.ip, nw)

IPv6Obj_set_prefixlen(self, arg) ==
    LET nw == IPNetwork(self.ip, arg, MaxPrefix6, FALSE) IN
    IF ~nw.ok THEN [err |-> nw.err, val |-> self]
    ELSE Return("IPv6Obj", self.ip, nw)

\* ------------------------------------------------- comparison, containment
\* Every operator returns [err, b]: the exception raised (an operand without
\* the attributes read makes the try block raise ValueError) or the boolean.
\* IPv4Obj.__eq__
IPv4Obj_eq(self, val) ==
    IF ~IsObj(val) THEN [err |-> "ValueError", b |-> FALSE]
    ELSE [err |-> NoErr,
          b |-> as_decimal(self) = as_decimal(val)
                /\ prefixlen(self) = prefixlen(val)]

\* IPv4Obj.__gt__
IPv4Obj_gt(self, val) ==
    IF ~IsObj(val) THEN [err |-> "ValueError", b |-> FALSE]
    ELSE
        LET val_prefixlen == prefixlen(val)
            self_prefixlen == prefixlen(self)
            val_ndec == as_decimal_network(val)
            self_ndec == as_decimal_network(self)
            val_dec == as_decimal(val)
            self_dec == as_decimal(self)
        IN [err |-> NoErr,
            b |-> IF self_ndec = val_ndec /\ self_prefixlen = val_prefixlen
                  THEN self_dec > val_dec
                  ELSE IF self_ndec = val_ndec
                  THEN self_prefixlen > val_prefixlen
                  ELSE self_ndec > val_ndec]

\* IPv4Obj.__lt__ with the mask comparison turned round (on a network tie the
\* longer mask is lower)
IPv4Obj_lt_longer_mask_lower(self, val) ==
    IF ~IsObj(val) THEN [err |-> "ValueError", b |-> FALSE]
    ELSE
        LET val_prefixlen == prefixlen(val)
            self_prefixlen == prefixlen(self)
            val_ndec == as_decimal_network(val)
            self_ndec == as_decimal_network(self)
            val_dec == as_decimal(val)
            self_dec == as_decimal(self)
        IN [err |-> NoErr,
            b |-> IF self_ndec = val_ndec /\ self_prefixlen = val_prefixlen
                  THEN self_dec < val_dec
                  ELSE IF self_ndec = val_ndec
                  THEN self_prefixlen > val_prefixlen
                  ELSE self_ndec < val_ndec]

\* IPv4Obj.__lt__
IPv4Obj_lt(self, val) ==
    IF ~IsObj(val) THEN [err |-> "ValueError", b |-> FALSE]
    ELSE
        LET val_prefixlen == prefixlen(val)
            self_prefixlen == prefixlen(self)
            val_ndec == as_decimal_network(val)
            self_ndec == as_decimal_network(self)
            val_dec == as_decimal(val)
            self_dec == as_decimal(self)
        IN [err |-> NoErr,
            b |-> IF self_ndec = val_ndec /\ self_prefixlen = val_prefixlen
                  THEN self_dec < val_dec
                  ELSE IF self_ndec = val_ndec
                  THEN self_prefixlen < val_prefixlen
                  ELSE self_ndec < val_ndec]

\* IPv4Obj.__contains__(val): "val in self"
IPv4Obj_contains(self, val) ==
    IF self.plen = 0 THEN [err |-> NoErr, b |-> TRUE]
    ELSE IF ~IsObj(val) THEN [err |-> "ValueError", b |-> FALSE]
    ELSE IF self.plen > val.plen THEN [err |-> NoErr, b |-> FALSE]
    ELSE [err |-> NoErr,
          b |-> as_decimal_network(self) <= as_decimal_network(val)
                /\ (as_decimal_network(self) + IPv4Obj_numhosts(self) - 1)
                     >= (as_decimal_network(val) + numhosts(val) - 1)]

\* IPv6Obj.__eq__
IPv6Obj_eq(self, val) ==
    IF ~IsObj(val) THEN [err |-> "ValueError", b |-> FALSE]
    ELSE [err |-> NoErr,
          b |-> as_decimal(self) = as_decimal(val)
                /\ prefixlen(self) = prefixlen(val)]

\* IPv6Obj.__gt__
IPv6Obj_gt(self, val) ==
    IF ~IsObj(val) THEN [err |-> "ValueError", b |-> FALSE]
    ELSE
        LET val_prefixlen == prefixlen(val)
            self_prefixlen == prefixlen(self)
            val_ndec == as_decimal_network(val)
            self_ndec == as_decimal_network(self)
            val_dec == as_decimal(val)
            self_dec == as_decimal(self)
        IN [err |-> NoErr,
            b |-> IF self_ndec = val_ndec /\ self_prefixlen = val_prefixlen
                  THEN self_dec > val_dec
                  ELSE IF self_ndec = val_ndec
                  THEN self_prefixlen > val_prefixlen
                  ELSE self_ndec > val_ndec]

\* IPv6Obj.__lt__
IPv6Obj_lt(self, val) ==
    IF ~IsObj(val) THEN [err |-> "ValueError", b |-> FALSE]
    ELSE
        LET val_prefixlen == prefixlen(val)
            self_prefixlen == prefixlen(self)
            val_ndec == as_decimal_network(val)
            self_ndec == as_decimal_network(self)
            val_dec == as_decimal(val)
            self_dec == as_decimal(self)
        IN [err |-> NoErr,
            b |-> IF self_ndec = val_ndec /\ self_prefixlen = val_prefixlen
                  THEN self_dec < val_dec
                  ELSE IF self_ndec = val_ndec
                  THEN self_prefixlen < val_prefixlen
                  ELSE self_ndec < val_ndec]

\* IPv6Obj.__contains__ computed on the host addresses instead of the network
\* boundaries (the variant the source keeps in a comment as last used in 1.5.6)
IPv6Obj_contains_on_host_bits(self, val) ==
    IF self.plen = 0 THEN [err |-> NoErr, b |-> TRUE]
    ELSE IF ~IsObj(val) THEN [err |-> "ValueError", b |-> FALSE]
    ELSE IF self.plen > val.plen THEN [err |-> NoErr, b |-> FALSE]
    ELSE [err |-> NoErr,
          b |-> as_decimal_network(self) <= as_decimal_network(val)
                /\ (as_decimal(self) + IPv6Obj_numhosts(self) - 1)
                     >= (as_decimal(val) + numhosts(val) - 1)]

\* IPv6Obj.__contains__(val)
IPv6Obj_contains(self, val) ==
    IF self.plen = 0 THEN [err |-> NoErr, b |-> TRUE]
    ELSE IF ~IsObj(val) THEN [err |-> "ValueError", b |-> FALSE]
    ELSE IF self.plen > val.plen THEN [err |-> NoErr, b |-> FALSE]
    ELSE [err |-> NoErr,
          b |-> as_decimal_network(self) <= as_decimal_network(val)
                /\ (as_decimal_network(self) + IPv6Obj_numhosts(self) - 1)
                     >= (as_decimal_network(val) + numhosts(val) - 1)]

\* a == b, a < b, a > b, b in a: Python calls the left (container) operand's
\* method
Eq(a, b) == IF a.dna = "IPv4Obj" THEN IPv4Obj_eq(a, b) ELSE IPv6Obj_eq(a, b)
Lt(a, b) == IF a.dna = "IPv4Obj" THEN IPv4Obj_lt(a, b) ELSE IPv6Obj_lt(a, b)
Gt(a, b) == IF a.dna = "IPv4Obj" THEN IPv4Obj_gt(a, b) ELSE IPv6Obj_gt(a, b)
Contains(a, b) ==
    IF a.dna = "IPv4Obj" THEN IPv4Obj_contains(a, b) ELSE IPv6Obj_contains(a, b)

\* ---------------------------------------------------------------- arithmetic
\* Every operator returns [err, val]: the exception raised or the new object.
\* IPv4Obj.__add__ that wraps modulo 2^32 instead of failing
IPv4Obj_add_wrapping(self, val) ==
    LET orig_prefixlen == prefixlen(self)
        total == (IPv4Obj_as_decimal(self) + val) % (Max4 + 1)
        retval == IPv4Obj([NoArg EXCEPT !.t = "int", !.n = total], FALSE)
    IN IPv4Obj_set_prefixlen(retval.val, orig_prefixlen)

\* IPv4Obj.__add__(val) for an integer val
IPv4Obj_add(self, val) ==
    LET orig_prefixlen == prefixlen(self)
        total == IPv4Obj_as_decimal(self) + val
    IN IF total > Max4 THEN [err |-> "AssertionError", val |-> None]
       ELSE IF total < 0 THEN [err |-> "AssertionError", val |-> None]
       ELSE LET retval == IPv4Obj([NoArg EXCEPT !.t = "int", !.n = total], FALSE) IN
            IF retval.err # NoErr THEN retval
            ELSE IPv4Obj_set_prefixlen(retval.val, orig_prefixlen)

\* IPv4Obj.__sub__ that does not put the original prefix length back
IPv4Obj_sub_drops_prefixlen(self, val) ==
    LET total == IPv4Obj_as_decimal(self) - val
    IN IF total > Max4 THEN [err |-> "AssertionError", val |-> None]
       ELSE IF total < 0 THEN [err |-> "AssertionError", val |-> None]
       ELSE IPv4Obj([NoArg EXCEPT !.t = "int", !.n = total], FALSE)

\* IPv4Obj.__sub__(val)
IPv4Obj_sub(self, val) ==
    LET orig_prefixlen == prefixlen(self)
        total == IPv4Obj_as_decimal(self) - val
    IN IF total > Max4 THEN [err |-> "AssertionError", val |-> None]
       ELSE IF total < 0 THEN [err |-> "AssertionError", val |-> None]
       ELSE LET retval == IPv4Obj([NoArg EXCEPT !.t = "int", !.n = total], FALSE) IN
            IF retval.err # NoErr THEN retval
            ELSE IPv4Obj_set_prefixlen(retval.val, orig_prefixlen)

\* IPv6Obj.__add__(val)
IPv6Obj_add(self, val) ==
    LET orig_prefixlen == prefixlen(self)
        total == IPv6Obj_as_decimal(self) + val
    IN IF total > Max6 THEN [err |-> "AssertionError", val |-> None]
       ELSE IF total < 0 THEN [err |-> "AssertionError", val |-> None]
       ELSE LET retval == IPv6Obj([NoArg EXCEPT !.t = "int", !.n = total], FALSE) IN
            IF retval.err # NoErr THEN retval
            ELSE IPv6Obj_set_prefixlen(retval.val, orig_prefixlen)

\* IPv6Obj.__sub__(val)
IPv6Obj_sub(self, val) ==
    LET orig_prefixlen == prefixlen(self)
        total == IPv6Obj_as_decimal(self) - val
    IN IF total > Max6 THEN [err |-> "AssertionError", val |-> None]
       ELSE IF total < 0 THEN [err |-> "AssertionError", val |-> None]
       ELSE LET retval == IPv6Obj([NoArg EXCEPT !.t = "int", !.n = total], FALSE) IN
            IF retval.err # NoErr THEN retval
            ELSE IPv6Obj_set_prefixlen(retval.val, orig_prefixlen)

Add(a, n) == IF a.dna = "IPv4Obj" THEN IPv4Obj_add(a, n) ELSE IPv6Obj_add(a, n)
Sub(a, n) == IF a.dna = "IPv4Obj" THEN IPv4Obj_sub(a, n) ELSE IPv6Obj_sub(a, n)
SetPrefixlen(a, p) ==
    IF a.dna = "IPv4Obj" THEN IPv4Obj_set_prefixlen(a, p)
    ELSE IPv6Obj_set_prefixlen(a, p)

\* ------------------------------------------------------- sorting and lookup
RECURSIVE InsertDescending(_, _)
\* e placed before the first element that is < e (only __lt__ is consulted)
InsertDescending(e, s) ==
    IF Len(s) = 0 THEN <<e>>
    ELSE IF Lt(s[1], e).b THEN <<e>> \o s
    ELSE <<s[1]>> \o InsertDescending(e, Tail(s))

RECURSIVE InsertionSort(_)
\* the elements of seq inserted one after the other, in their order
InsertionSort(seq) ==
    IF Len(seq) = 0 THEN <<>>
    ELSE InsertDescending(seq[Len(seq)],
                          InsertionSort(SubSeq(seq, 1, Len(seq) - 1)))

\* sorted(seq) without reverse=True: ascending
sorted_ascending(seq) == Reverse(InsertionSort(seq))

\* sorted(seq, reverse=True): stable, descending by the objects' ordering
sorted_reverse(seq) == InsertionSort(seq)

RECURSIVE first_match(_, _)
\* for route in rt_table: if addr in route: break
first_match(table, a) ==
    IF Len(table) = 0 THEN None
    ELSE IF Contains(table[1], a).b THEN table[1]
    ELSE first_match(Tail(table), a)

\* ============================================================== CiscoRange
\* A text is a sequence of one-character strings.  Index texts are written
\* with the digits of Digits: the decimal notation of int() and str(), scaled
\* to Len(Digits) digits so that two-digit indexes stay small.
Digits == <<"0", "1", "2">>

\* the characters of the model, in code point order
Alphabet == <<" ", ",", "-", "/">> \o Digits \o <<"E", "e">>
ord(c) == CHOOSE i \in 1..Len(Alphabet) : Alphabet[i] = c
isdigit(c) == \E i \in 1..Len(Digits) : Digits[i] = c
IsDigits(s) == s # <<>> /\ \A i \in 1..Len(s) : isdigit(s[i])

\* a < b for two texts: the comparison of Python strings, by code point
str_lt(a, b) ==
    \E i \in 1..Len(b) :
        /\ \A j \in 1..(i - 1) : j <= Len(a) /\ a[j] = b[j]
        /\ (i > Len(a) \/ (i <= Len(a) /\ ord(a[i]) < ord(b[i])))

\* text.lower()
lower(s) == [i \in 1..Len(s) |-> IF s[i] = "E" THEN "e" ELSE s[i]]

\* text.strip()
strip(s) ==
    IF \A i \in 1..Len(s) : s[i] = " " THEN <<>>
    ELSE LET a == CHOOSE i \in 1..Len(s) :
                    s[i] # " " /\ \A j \in 1..(i - 1) : s[j] = " "
             b == CHOOSE i \in 1..Len(s) :
                    s[i] # " " /\ \A j \in (i + 1)..Len(s) : s[j] = " "
         IN SubSeq(s, a, b)

\* text.split(sep): the pieces between the separators, empty pieces included
RECURSIVE split(_, _)
split(s, sep) ==
    IF \A i \in 1..Len(s) : s[i] # sep THEN <<s>>
    ELSE LET k == CHOOSE i \in 1..Len(s) :
                    s[i] = sep /\ \A j \in 1..(i - 1) : s[j] # sep
         IN <<SubSeq(s, 1, k - 1)>> \o split(SubSeq(s, k + 1, Len(s)), sep)

\* int(text): surrounding whitespace is dropped, a sign is read, and the rest
\* must be digits; anything else is a ValueError
int(s) ==
    LET Parse(t) ==
            LET neg == t # <<>> /\ t[1] = "-"
                d == IF neg THEN Tail(t) ELSE t
                DigitValue(c) ==
                    (CHOOSE i \in 1..Len(Digits) : Digits[i] = c) - 1
                v == DigitsToInt([i \in 1..Len(d) |-> DigitValue(d[i])],
                                 Len(Digits))
            IN IF IsDigits(d)
               THEN [err |-> NoErr, n |-> IF neg THEN 0 - v ELSE v]
               ELSE [err |-> "ValueError", n |-> 0]
    IN Parse(strip(s))

\* str(n) for n >= 0
RECURSIVE str(_)
str(n) ==
    IF n < Len(Digits) THEN <<Digits[n + 1]>>
    ELSE str(n \div Len(Digits)) \o <<Digits[(n % Len(Digits)) + 1]>>

\* an item of the list: a text (result_type str) or an integer (result_type
\* int)
StrItem(s) == [t |-> "str", s |-> s, n |-> 0]
IntItem(n) == [t |-> "int", s |-> <<>>, n |-> n]

\* a < b for two items of one type, as sorted() compares them
item_lt(a, b) == IF a.t = "int" THEN a.n < b.n ELSE str_lt(a.s, b.s)

\* sorted(S) for a set S of items of one type
RECURSIVE sorted(_)
sorted(S) ==
    IF S = {} THEN <<>>
    ELSE LET m == CHOOSE e \in S : \A f \in S \ {e} : item_lt(e, f)
         IN <<m>> \o sorted(S \ {m})

\* list(S) for a set S: the members once each, in an order the language
\* leaves open
ListOfSet(S) ==
    {l \in [1..Cardinality(S) -> S] : \A e \in S : \E i \in DOMAIN l : l[i] = e}

\* set(l) for a list l
SetOfList(l) == {l[i] : i \in 1..Len(l)}

\* _RGX_CISCO_RANGE.search(text): line_prefix is the leading run of letters
\* and whitespace; slot_prefix runs from there to the last "/" and is made of
\* digits and "/" with a digit before that last "/"; range_text is the rest,
\* made of whitespace, digits and "-", every run of "-" following a digit
RGX_CISCO_RANGE(text) ==
    LET n == Len(text)
        IsLine(c) == c \in {"E", "e"} \/ c = " "
        Match(a, slot, rng) ==
            LET slot_ok ==
                    \/ slot = <<>>
                    \/ /\ \A i \in 1..Len(slot) :
                            isdigit(slot[i]) \/ slot[i] = "/"
                       /\ Len(slot) >= 2
                       /\ isdigit(slot[Len(slot) - 1])
                PrevIsDigit(i) ==
                    \E j \in 1..(i - 1) :
                        /\ isdigit(rng[j])
                        /\ \A k \in (j + 1)..(i - 1) : rng[k] = " "
                rng_ok ==
                    \/ rng = <<>>
                    \/ /\ \A i \in 1..Len(rng) :
                            isdigit(rng[i]) \/ rng[i] = " " \/ rng[i] = "-"
                       /\ \E i \in 1..Len(rng) : isdigit(rng[i])
                       /\ \A i \in 1..Len(rng) :
                            (rng[i] = "-" /\ (i = 1 \/ rng[i - 1] # "-"))
                                => PrevIsDigit(i)
            IN [mm |-> slot_ok /\ rng_ok, line_prefix |-> SubSeq(text, 1, a),
                slot_prefix |-> slot, range_text |-> rng]
        Slot(a, b) == Match(a, SubSeq(text, a + 1, b), SubSeq(text, b + 1, n))
        Line(a) ==
            Slot(a, IF \A i \in (a + 1)..n : text[i] # "/" THEN a
                    ELSE CHOOSE i \in (a + 1)..n :
                           text[i] = "/" /\ \A j \in (i + 1)..n : text[j] # "/")
    IN Line(IF \A i \in 1..n : IsLine(text[i]) THEN n
            ELSE (CHOOSE i \in 1..n :
                    ~IsLine(text[i]) /\ \A j \in 1..(i - 1) : IsLine(text[j]))
                 - 1)

\* text.join(pieces) with a "," between the pieces
RECURSIVE join(_)
join(pieces) ==
    IF Len(pieces) = 1 THEN pieces[1]
    ELSE pieces[1] \o <<",">> \o join(Tail(pieces))

\* CiscoRange._parse_range_text: the prefixes are read off the first
\* comma-separated piece only
parse_range_text(text) ==
    LET Prefixes(tmp, mm) ==
            IF ~mm.mm THEN [err |-> "AssertionError", line_prefix |-> <<>>,
                            slot_prefix |-> <<>>, range_text |-> <<>>]
            ELSE [err |-> NoErr, line_prefix |-> mm.line_prefix,
                  slot_prefix |-> mm.slot_prefix,
                  range_text |-> join(<<mm.range_text>> \o Tail(tmp))]
        Search(tmp) == Prefixes(tmp, RGX_CISCO_RANGE(tmp[1]))
    IN Search(split(text, ","))

\* one atom, its end taken as the first integer past the range
parse_atom_exclusive_end(range_atom) ==
    LET Range(begin, end) ==
            IF begin.err # NoErr \/ end.err # NoErr
            THEN [err |-> "ValueError", begin |-> 0, end |-> 0]
            ELSE IF ~(begin.n > -1) \/ ~(end.n + 1 > begin.n)
            THEN [err |-> "AssertionError", begin |-> 0, end |-> 0]
            ELSE [err |-> NoErr, begin |-> begin.n,
                  end |-> IF end.n > begin.n THEN end.n ELSE end.n + 1]
        Ends(parts) ==
            Range(int(IF Len(parts) = 2 THEN parts[1] ELSE range_atom),
                  int(IF Len(parts) = 2 THEN parts[2] ELSE range_atom))
    IN Ends(split(range_atom, "-"))

\* one atom, an end before the begin read as the empty range
parse_atom_unordered(range_atom) ==
    LET Range(begin, end) ==
            IF begin.err # NoErr \/ end.err # NoErr
            THEN [err |-> "ValueError", begin |-> 0, end |-> 0]
            ELSE IF ~(begin.n > -1)
            THEN [err |-> "AssertionError", begin |-> 0, end |-> 0]
            ELSE [err |-> NoErr, begin |-> begin.n, end |-> end.n + 1]
        Ends(parts) ==
            Range(int(IF Len(parts) = 2 THEN parts[1] ELSE range_atom),
                  int(IF Len(parts) = 2 THEN parts[2] ELSE range_atom))
    IN Ends(split(range_atom, "-"))

\* one atom of CiscoRange._parse_dash_range: begin and end + 1, or the error
\* the atom raises
parse_atom(range_atom) ==
    LET Range(begin, end) ==
            IF begin.err # NoErr \/ end.err # NoErr
            THEN [err |-> "ValueError", begin |-> 0, end |-> 0]
            ELSE IF ~(begin.n > -1) \/ ~(end.n + 1 > begin.n)
            THEN [err |-> "AssertionError", begin |-> 0, end |-> 0]
            ELSE [err |-> NoErr, begin |-> begin.n, end |-> end.n + 1]
        Ends(parts) ==
            Range(int(IF Len(parts) = 2 THEN parts[1] ELSE range_atom),
                  int(IF Len(parts) = 2 THEN parts[2] ELSE range_atom))
    IN Ends(split(range_atom, "-"))

\* CiscoRange._parse_dash_range: the integers of every atom, as a set; the
\* first atom that fails raises
parse_dash_range(text) ==
    LET Collect(res) ==
            LET bad == {i \in 1..Len(res) : res[i].err # NoErr}
            IN IF bad # {}
               THEN [err |-> res[CHOOSE i \in bad : \A j \in bad : i <= j].err,
                     retval |-> {}]
               ELSE [err |-> NoErr,
                     retval |-> UNION {res[i].begin..(res[i].end - 1) :
                                       i \in 1..Len(res)}]
        Atoms(atoms) == Collect([i \in 1..Len(atoms) |-> parse_atom(atoms[i])])
    IN Atoms(split(text, ","))

\* result_type(ii) of a text ii
result_type(rt, s) ==
    LET Read(v) == [err |-> v.err, item |-> IntItem(v.n)]
    IN IF rt = "str" THEN [err |-> NoErr, item |-> StrItem(s)]
       ELSE Read(int(s))

NoRange ==
    [line_prefix |-> <<>>, slot_prefix |-> <<>>, list |-> <<>>,
     result_type |-> "None"]

\* CiscoRange(text, result_type), up to the order of the list: the prefixes
\* and the set of items CiscoRange._range builds, or the error raised
CiscoRange_init(text, rt) ==
    LET Failed(e) == [err |-> e, val |-> NoRange, items |-> {}]
        Items(p, d) ==
            LET combine(arg) == p.line_prefix \o p.slot_prefix \o str(arg)
                Typed(res) ==
                    IF \E q \in res : q.err # NoErr THEN Failed("ValueError")
                    ELSE [err |-> NoErr, items |-> {q.item : q \in res},
                          val |-> [line_prefix |-> p.line_prefix,
                                   slot_prefix |-> p.slot_prefix,
                                   list |-> <<>>, result_type |-> rt]]
            IN IF d.err # NoErr THEN Failed(d.err)
               ELSE Typed({result_type(rt, combine(v)) : v \in d.retval})
        Parsed(p) ==
            IF p.err # NoErr THEN Failed(p.err)
            ELSE Items(p, parse_dash_range(p.range_text))
    IN IF text = <<>>
       THEN [err |-> NoErr, items |-> {},
             val |-> [NoRange EXCEPT !.result_type = rt]]
       ELSE Parsed(parse_range_text(text))

\* the objects CiscoRange(text, result_type) can return, c being
\* CiscoRange_init(text, result_type): _parse_dash_range ends on
\* list(set(retval)), whose order the language leaves open
Orders(c) == {[c.val EXCEPT !.list = l] : l \in ListOfSet(c.items)}

\* list.insert(i, obj): a position outside the list is clamped to its ends
list_insert(l, i, obj) ==
    LET j == IF i < 0 THEN (IF i + Len(l) < 0 THEN 0 ELSE i + Len(l))
             ELSE IF i > Len(l) THEN Len(l) ELSE i
    IN SubSeq(l, 1, j) \o <<obj>> \o SubSeq(l, j + 1, Len(l))

\* the loop of an insert that stops after the first object
insert_each_first_only(l, ii, objs, idx) ==
    IF objs = <<>> THEN l ELSE list_insert(l, ii, objs[1])

\* the loop of CiscoRange.insert: objs[idx] goes in at position ii + idx
RECURSIVE insert_each(_, _, _, _)
insert_each(l, ii, objs, idx) ==
    IF idx >= Len(objs) THEN l
    ELSE insert_each(list_insert(l, ii + idx, objs[idx + 1]), ii, objs,
                     idx + 1)

\* CiscoRange.insert(ii, val), set deduplication and sorting left out
CiscoRange_insert_positional(obj, ii, objs) ==
    [obj EXCEPT !.list = insert_each(obj.list, ii, objs, 0)]

\* CiscoRange.insert(ii, val), where objs is the list of
\* CiscoRange(val, result_type=self.result_type): the items go in one by one,
\* then the list is rebuilt as sorted(map(result_type, set(list))), where
\* result_type leaves an item of its own type as it is
CiscoRange_insert_list(obj, ii, objs) ==
    [obj EXCEPT !.list = sorted(SetOfList(insert_each(obj.list, ii, objs, 0)))]

\* CiscoRange.insert(ii, val): the outcomes, one for each order of the list
\* of CiscoRange(val)
CiscoRange_insert(obj, ii, val) ==
    LET Each(c) ==
            IF c.err # NoErr THEN {[err |-> c.err, val |-> obj]}
            ELSE {[err |-> NoErr,
                   val |-> CiscoRange_insert_list(obj, ii, objs)] :
                  objs \in ListOfSet(c.items)}
    IN Each(CiscoRange_init(val, obj.result_type))

\* CiscoRange.append(val)
CiscoRange_append(obj, val) == CiscoRange_insert(obj, Len(obj.list), val)

\* a remove that raises, as list.remove does, when an item is not in the list
CiscoRange_remove_raises(obj, arg) ==
    LET Pop(c) ==
            LET conv == {result_type(obj.result_type, ii.s) : ii \in c.items}
                gone == {q.item : q \in {k \in conv : k.err = NoErr}}
            IN IF c.err # NoErr THEN [err |-> c.err, val |-> obj]
               ELSE IF ~(gone \subseteq SetOfList(obj.list))
               THEN [err |-> "ValueError", val |-> obj]
               ELSE [err |-> NoErr,
                     val |-> [obj EXCEPT !.list =
                                SelectSeq(obj.list, LAMBDA e : e \notin gone)]]
    IN Pop(CiscoRange_init(arg, "str"))

\* a remove that pops the first item of CiscoRange(arg) only
CiscoRange_remove_first_only(obj, arg) ==
    LET Pop(c) ==
            LET conv == {result_type(obj.result_type, ii.s) : ii \in c.items}
                gone == {q.item : q \in {k \in conv : k.err = NoErr}}
                first == CHOOSE e \in gone : \A f \in gone \ {e} : item_lt(e, f)
            IN IF c.err # NoErr THEN [err |-> c.err, val |-> obj]
               ELSE IF gone = {} THEN [err |-> NoErr, val |-> obj]
               ELSE [err |-> NoErr,
                     val |-> [obj EXCEPT !.list =
                                SelectSeq(obj.list, LAMBDA e : e # first)]]
    IN Pop(CiscoRange_init(arg, "str"))

\* CiscoRange.remove(arg): every occurrence of every item of CiscoRange(arg),
\* read as self.result_type, is popped; an item that cannot be read or is not
\* in the list is passed over
CiscoRange_remove(obj, arg) ==
    LET Pop(c) ==
            LET conv == {result_type(obj.result_type, ii.s) : ii \in c.items}
                gone == {q.item : q \in {k \in conv : k.err = NoErr}}
            IN IF c.err # NoErr THEN [err |-> c.err, val |-> obj]
               ELSE [err |-> NoErr,
                     val |-> [obj EXCEPT !.list =
                                SelectSeq(obj.list, LAMBDA e : e \notin gone)]]
    IN Pop(CiscoRange_init(arg, "str"))

\* an index assignment that stores the value
CiscoRange_setitem_storing(obj, ii, val) ==
    LET n == Len(obj.list)
        j == IF ii < 0 THEN ii + n + 1 ELSE ii + 1
    IN IF j < 1 \/ j > n THEN [err |-> "IndexError", val |-> obj]
       ELSE [err |-> NoErr, val |-> [obj EXCEPT !.list[j] = StrItem(val)]]

\* CiscoRange.__setitem__(ii, val): return self._list[ii], val is not read
CiscoRange_setitem(obj, ii, val) ==
    LET n == Len(obj.list)
        j == IF ii < 0 THEN ii + n + 1 ELSE ii + 1
    IN IF j < 1 \/ j > n THEN [err |-> "IndexError", val |-> obj]
       ELSE [err |-> NoErr, val |-> obj]

\* CiscoRange.__delitem__(ii): del self._list[ii]
CiscoRange_delitem(obj, ii) ==
    LET n == Len(obj.list)
        j == IF ii < 0 THEN ii + n + 1 ELSE ii + 1
    IN IF j < 1 \/ j > n THEN [err |-> "IndexError", val |-> obj]
       ELSE [err |-> NoErr,
             val |-> [obj EXCEPT !.list = SubSeq(obj.list, 1, j - 1)
                                          \o SubSeq(obj.list, j + 1, n)]]

\* sorted(l) for a list l, duplicates kept
RECURSIVE sorted_list(_)
sorted_list(l) ==
    IF l = <<>> THEN <<>>
    ELSE LET k == CHOOSE i \in 1..Len(l) :
                    \A j \in 1..Len(l) : ~item_lt(l[j], l[i])
         IN <<l[k]>> \o sorted_list(SubSeq(l, 1, k - 1)
                                    \o SubSeq(l, k + 1, Len(l)))

\* CiscoRange.__eq__(other)
CiscoRange_eq(a, b) ==
    LET self_prefix_str == a.line_prefix \o a.slot_prefix
        other_prefix_str == b.line_prefix \o b.slot_prefix
        cmp1 == lower(self_prefix_str) = lower(other_prefix_str)
        cmp2 == sorted_list(a.list) = sorted_list(b.list)
    IN cmp1 /\ cmp2

\* re.sub(r"^{prefix_str}(\d+)$", "\g<1>", text): the digits after the prefix
\* when the text is the prefix followed by digits, the text itself otherwise
sub_prefix(prefix_str, s) ==
    LET n == Len(prefix_str)
    IN IF /\ Len(s) > n
          /\ SubSeq(s, 1, n) = prefix_str
          /\ IsDigits(SubSeq(s, n + 1, Len(s)))
       THEN SubSeq(s, n + 1, Len(s))
       ELSE s

\* the loop with a "-" for every inner integer that follows its predecessor,
\* whatever comes after it
RECURSIVE range_list_loop_left_only(_, _, _)
range_list_loop_left_only(input, ii, range_list) ==
    IF ii >= Len(input) THEN range_list
    ELSE LET at(k) == input[k + 1]
             inner == ii + 1 < Len(input) /\ ii - 1 > -1
             next ==
                 IF ~inner THEN range_list
                 ELSE IF at(ii) - at(ii - 1) = 1
                 THEN (IF range_list[Len(range_list)] # StrItem(<<"-">>)
                       THEN range_list \o <<StrItem(<<"-">>)>>
                       ELSE range_list)
                 ELSE range_list \o <<IntItem(at(ii))>>
         IN range_list_loop_left_only(input, ii + 1, next)

\* the loop of compressed_str over the sorted integers: an inner member of a
\* run of consecutive integers leaves one "-" (written as the text <<"-">>),
\* every other inner integer is kept
RECURSIVE range_list_loop(_, _, _)
range_list_loop(input, ii, range_list) ==
    IF ii >= Len(input) THEN range_list
    ELSE LET at(k) == input[k + 1]
             inner == ii + 1 < Len(input) /\ ii - 1 > -1
             next ==
                 IF ~inner THEN range_list
                 ELSE IF at(ii) - at(ii - 1) = 1 /\ at(ii + 1) - at(ii) = 1
                 THEN (IF range_list[Len(range_list)] # StrItem(<<"-">>)
                       THEN range_list \o <<StrItem(<<"-">>)>>
                       ELSE range_list)
                 ELSE range_list \o <<IntItem(at(ii))>>
         IN range_list_loop(input, ii + 1, next)

\* the text of one member of range_list
item_str(e) == IF e.t = "int" THEN str(e.n) ELSE e.s

\* the last loop with a "," ahead of every member
RECURSIVE build_retval_all_commas(_, _, _)
build_retval_all_commas(range_list, ii, retval) ==
    IF ii >= Len(range_list) THEN retval
    ELSE build_retval_all_commas(range_list, ii + 1,
            retval \o <<",">> \o item_str(range_list[ii + 1]))

\* the last loop of compressed_str: a "," goes between two members of the
\* same type only
RECURSIVE build_retval(_, _, _)
build_retval(range_list, ii, retval) ==
    IF ii >= Len(range_list) THEN retval
    ELSE build_retval(range_list, ii + 1,
            IF range_list[ii + 1].t # range_list[ii].t
            THEN retval \o item_str(range_list[ii + 1])
            ELSE retval \o <<",">> \o item_str(range_list[ii + 1]))

\* CiscoRange.compressed_str
compressed_str(obj) ==
    LET prefix_str == obj.line_prefix \o obj.slot_prefix
        Build(range_list) ==
            build_retval(range_list, 1, prefix_str \o item_str(range_list[1]))
        Runs(nums) ==
            Build(range_list_loop(nums, 0, <<IntItem(nums[1])>>)
                  \o (IF Len(nums) > 1 THEN <<IntItem(nums[Len(nums)])>>
                      ELSE <<>>))
        Sort(input) == Runs([i \in 1..Len(input) |-> input[i].n])
        Strip(parsed) ==
            IF \E i \in 1..Len(parsed) : parsed[i].err # NoErr
            THEN [err |-> "ValueError", s |-> <<>>]
            ELSE IF Len(parsed) = 0 THEN [err |-> NoErr, s |-> <<>>]
            ELSE [err |-> NoErr,
                  s |-> Sort(sorted({IntItem(parsed[i].n) :
                                     i \in 1..Len(parsed)}))]
    IN Strip([i \in 1..Len(obj.list) |->
                int(sub_prefix(prefix_str, item_str(obj.list[i])))])

\* --------------------------------------------------------------- iteration
\* the addresses between the first and the last of the network, the two ends
\* left out
IPNetwork_hosts(obj) ==
    LET bits == IF obj.dna = "IPv4Obj" THEN MaxPrefix4 ELSE MaxPrefix6
        broadcast == obj.net + (2 ^ (bits - obj.plen) - 1)
    IN [i \in 1..(broadcast - obj.net - 1) |-> obj.net + i]

\* network_object.__iter__(): the addresses range(network, broadcast + 1)
\* runs through, broadcast being the network address with every host bit set
IPNetwork_iter(obj) ==
    LET bits == IF obj.dna = "IPv4Obj" THEN MaxPrefix4 ELSE MaxPrefix6
        broadcast == obj.net + (2 ^ (bits - obj.plen) - 1)
    IN [i \in 1..(broadcast + 1 - obj.net) |-> obj.net + (i - 1)]

\* ------------------------------------------------- zero-padded IPv4 text
\* A dotted text is given by its octet texts, the pieces addr.split(".")
\* returns.
\* "{0:03}".format(n): the decimal text of n, zeros put before it up to the
\* width
format_03(n) ==
    LET Pad(t) ==
            IF Len(t) >= PadWidth THEN t
            ELSE [i \in 1..(PadWidth - Len(t)) |-> "0"] \o t
    IN Pad(str(n))

\* IPv4Obj.as_zeropadded
IPv4Obj_as_zeropadded(obj) ==
    LET num_strings == IPv4Address_str(obj.ip) IN
    [i \in 1..Len(num_strings) |-> format_03(num_strings[i])]

\* a normalisation that reads an octet written with a leading zero as 0
normalize_addr_padded_as_zero(octets) ==
    [i \in 1..Len(octets) |->
        IF Len(octets[i]) > 1 /\ octets[i][1] = "0" THEN str(0)
        ELSE str(int(octets[i]).n)]

\* ".".join([str(int(ii)) for ii in addr.split(".")])
normalize_addr(octets) == [i \in 1..Len(octets) |-> str(int(octets[i]).n)]

\* IPv4Obj(text) for a dotted text without a mask: the octets are normalised
\* and the address and network are parsed from the normal form
IPv4Obj_text(octets, strict) ==
    LET Parsed(addr) ==
            IPv4Obj([NoArg EXCEPT !.t = "str4", !.kind = "addr",
                                  !.addr = [i \in 1..Len(addr) |->
                                               int(addr[i]).n]], strict)
    IN Parsed(normalize_addr(octets))

\* ---------------------------------------------------------------- L4Object
\* sub in text
contains(sub, text) ==
    \E i \in 0..(Len(text) - Len(sub)) : SubSeq(text, i + 1, i + Len(sub)) = sub

\* no L4Object
NoL4 ==
    [protocol |-> "", port_spec |-> <<>>, syntax |-> "", port_list |-> <<>>,
     err |-> NoErr, op |-> <<>>, a |-> 0, b |-> 0]

\* L4Object.__init__(protocol, port_spec, syntax): the object built, err
\* naming the exception raised.  Every port is written as a number, for which
\* ports.get(port_str, port_str) is port_str itself.
L4Object(protocol, port_spec, syntax) ==
    LET range(a, b) == [i \in 1..(b - a) |-> a + (i - 1)]
        Built(spec) ==
            LET Done(pl) ==
                    [NoL4 EXCEPT !.protocol = protocol, !.port_spec = port_spec,
                                 !.syntax = syntax, !.port_list = pl]
                Failed(e) == [Done(<<>>) EXCEPT !.err = e]
                Ports(w) ==
                    LET last == int(w[Len(w)])
                        first == int(w[IF Len(w) >= 2 THEN 2 ELSE 1])
                        second == int(w[IF Len(w) >= 3 THEN 3 ELSE 1])
                    IN
                    IF contains(<<"e", "q", " ">>, spec) THEN
                        IF last.err # NoErr THEN Failed(last.err)
                        ELSE Done(<<last.n>>)
                    ELSE IF spec # <<>> /\ ~contains(<<" ">>, spec) THEN
                        IF last.err # NoErr THEN Failed(last.err)
                        ELSE Done(<<last.n>>)
                    ELSE IF contains(<<"r", "a", "n", "g", "e", " ">>, spec) THEN
                        IF Len(w) < 3 THEN Failed("IndexError")
                        ELSE IF first.err # NoErr THEN Failed(first.err)
                        ELSE IF second.err # NoErr THEN Failed(second.err)
                        ELSE Done(range(first.n, second.n + 1))
                    ELSE IF contains(<<"l", "t", " ">>, spec) THEN
                        IF last.err # NoErr THEN Failed(last.err)
                        ELSE Done(range(1, last.n))
                    ELSE IF contains(<<"g", "t", " ">>, spec) THEN
                        IF last.err # NoErr THEN Failed(last.err)
                        ELSE Done(range(last.n + 1, PortEnd))
                    ELSE IF contains(<<"n", "e", "q", " ">>, spec) THEN
                        IF last.err # NoErr THEN Failed(last.err)
                        ELSE IF last.n \notin 1..(PortEnd - 1)
                        THEN Failed("KeyError")
                        ELSE Done(SelectSeq(range(1, PortEnd),
                                            LAMBDA q : q # last.n))
                    ELSE Done(<<>>)
            IN Ports(SelectSeq(split(spec, " "), LAMBDA w : w # <<>>))
    IN IF syntax # "asa" \/ protocol \notin {"tcp", "udp"}
       THEN [NoL4 EXCEPT !.protocol = protocol, !.port_spec = port_spec,
                         !.syntax = syntax, !.err = "NotImplementedError"]
       ELSE Built(strip(port_spec))

\* ------------------------------------------------------------------- state
VARIABLES
    x,            \* an address object (None: no object)
    y,            \* a second operand, or the result of x + n / x - n
    out,          \* the last operation: its name, input and outcome
    prefix_list,  \* the routes of a route table, in the order given
    rt_table,     \* the table sorted for the lookup
    addr,         \* the address looked up (None: no lookup yet)
    route,        \* the route the lookup ended on (None: no match)
    self,         \* a CiscoRange object (NoRange: no object)
    other,        \* a second CiscoRange object (NoRange: no object)
    ret,          \* the last CiscoRange operation: name, input and outcome
    l4            \* an L4Object and the call that built it (NoL4: none)

objVars == <<x, y, out>>
routeVars == <<prefix_list, rt_table, addr, route>>
rangeVars == <<self, other, ret>>
vars ==
    <<x, y, out, prefix_list, rt_table, addr, route, self, other, ret, l4>>

\* no CiscoRange operation yet
NoRet ==
    [op |-> "init", val |-> <<>>, result_type |-> "None", ii |-> 0,
     err |-> NoErr, before |-> NoRange, s |-> <<>>, b |-> FALSE]

InitNoRange ==
    /\ self = NoRange
    /\ other = NoRange
    /\ ret = NoRet

NoOut ==
    [op |-> "init", cls |-> "", arg |-> NoArg, strict |-> FALSE, n |-> 0,
     err |-> NoErr, b |-> FALSE, before |-> None, seq |-> <<>>]

\* a value of an unrelated type (a string, say) used as a comparison operand
Foreign == [dna |-> "str", ip |-> 0, net |-> 0, plen |-> 0]

Construct(cls, arg, strict) ==
    IF cls = "IPv4Obj" THEN IPv4Obj(arg, strict) ELSE IPv6Obj(arg, strict)

\* every object a constructor call on a text can return
Values ==
    {r.val : r \in {q \in {IPv4Obj(a, FALSE) : a \in Str4Args}
                           \cup {IPv6Obj(a, FALSE) : a \in Str6Args} :
                      q.err = NoErr}}
Deltas == (-MaxDelta)..MaxDelta

\* ------------------------------------------- objects: construct and mutate
\* the octet texts of the dotted texts constructed from: every octet value up
\* to the first illegal one, written with no, one and two leading zeros
OctetTexts ==
    {[i \in 1..k |-> "0"] \o str(v) : k \in 0..(PadWidth - 1), v \in 0..OctetBase}

\* the arguments a first construction is given
Args ==
    Str4Args \cup Str6Args \cup IntArgs \cup Net4Args \cup Net6Args \cup IpArgs
    \cup {NoArg}

NewOut(cls, arg, strict, err) ==
    [NoOut EXCEPT !.op = "new", !.cls = cls, !.arg = arg, !.strict = strict,
                  !.err = err]

\* the state after x = IPv4Obj(arg, strict) or x = IPv6Obj(arg, strict), or
\* after x = IPv4Obj(text) for a dotted text whose octets may carry leading
\* zeros; a raised exception leaves no object
InitObj ==
    /\ \/ \E cls \in {"IPv4Obj", "IPv6Obj"}, strict \in BOOLEAN, arg \in Args :
            /\ x = Construct(cls, arg, strict).val
            /\ out = NewOut(cls, arg, strict, Construct(cls, arg, strict).err)
       \/ \E octets \in [1..Octets4 -> OctetTexts] :
            \E r \in {IPv4Obj_text(octets, FALSE)} :
               /\ x = r.val
               /\ out = [NoOut EXCEPT !.op = "new_text", !.cls = "IPv4Obj",
                                      !.arg = [NoArg EXCEPT !.t = "text4",
                                                            !.addr = octets],
                                      !.err = r.err]
    /\ y = None
    /\ prefix_list = <<>>
    /\ rt_table = <<>>
    /\ addr = None
    /\ route = None
    /\ l4 = NoL4
    /\ InitNoRange

\* x = IPv4Obj(x, strict) / IPv6Obj(x, strict): construction from an object
NewFromObj(cls, strict) ==
    /\ x # None
    /\ LET r == Construct(cls, ObjArg(x), strict) IN
        /\ x' = r.val
        /\ out' = NewOut(cls, ObjArg(x), strict, r.err)
    /\ y' = None
    /\ UNCHANGED <<routeVars, rangeVars, l4>>

\* x = IPv4Obj(x.as_zeropadded)
NewFromZeropadded ==
    /\ x # None
    /\ x.dna = "IPv4Obj"
    /\ LET r == IPv4Obj_text(IPv4Obj_as_zeropadded(x), FALSE) IN
        /\ x' = r.val
        /\ out' = [NoOut EXCEPT !.op = "new_zeropadded", !.cls = "IPv4Obj",
                                !.arg = [NoArg EXCEPT
                                           !.t = "text4",
                                           !.addr = IPv4Obj_as_zeropadded(x)],
                                !.err = r.err, !.before = x]
    /\ y' = None
    /\ UNCHANGED <<routeVars, rangeVars, l4>>

\* it = iter(x): a new generator over the network of x, nothing yielded yet
IterStart ==
    /\ x # None
    /\ out' = [NoOut EXCEPT !.op = "iter"]
    /\ UNCHANGED <<x, y, routeVars, rangeVars, l4>>

\* next(it): the next address, or StopIteration (b) once the range is through
IterNext ==
    /\ out.op = "iter"
    /\ ~out.b
    /\ out' = IF Len(out.seq) < Len(IPNetwork_iter(x))
              THEN [out EXCEPT
                      !.seq = Append(@, IPNetwork_iter(x)[Len(out.seq) + 1])]
              ELSE [out EXCEPT !.b = TRUE]
    /\ UNCHANGED <<x, y, routeVars, rangeVars, l4>>

\* x.prefixlen = p
AssignPrefixlen(p) ==
    /\ x # None
    /\ LET r == SetPrefixlen(x, p) IN
        /\ x' = r.val
        /\ out' = [NoOut EXCEPT !.op = "prefixlen", !.n = p, !.err = r.err,
                                !.before = x]
    /\ y' = None
    /\ UNCHANGED <<routeVars, rangeVars, l4>>

\* x.prefixlen = q right after x.prefixlen = p succeeded, q being the prefix
\* length x had before
AssignBack ==
    /\ out.op = "prefixlen"
    /\ out.err = NoErr
    /\ LET r == SetPrefixlen(x, prefixlen(out.before)) IN
        /\ x' = r.val
        /\ out' = [out EXCEPT !.op = "prefixlen_back", !.err = r.err]
    /\ y' = None
    /\ UNCHANGED <<routeVars, rangeVars, l4>>

\* y = x + n
AddInt(n) ==
    /\ x # None
    /\ LET r == Add(x, n) IN
        /\ y' = r.val
        /\ out' = [NoOut EXCEPT !.op = "add", !.n = n, !.err = r.err]
    /\ UNCHANGED <<x, routeVars, rangeVars, l4>>

\* y = x - n
SubInt(n) ==
    /\ x # None
    /\ LET r == Sub(x, n) IN
        /\ y' = r.val
        /\ out' = [NoOut EXCEPT !.op = "sub", !.n = n, !.err = r.err]
    /\ UNCHANGED <<x, routeVars, rangeVars, l4>>

\* y = y - n right after y = x + n, for the same n: y is then (x + n) - n
SubBack ==
    /\ out.op = "add"
    /\ out.err = NoErr
    /\ LET r == Sub(y, out.n) IN
        /\ y' = r.val
        /\ out' = [NoOut EXCEPT !.op = "add_sub", !.n = out.n, !.err = r.err]
    /\ UNCHANGED <<x, routeVars, rangeVars, l4>>

\* x = y: go on from the result of an addition or a subtraction
Rebind ==
    /\ y # None
    /\ x' = y
    /\ y' = None
    /\ out' = [NoOut EXCEPT !.op = "rebind"]
    /\ UNCHANGED <<routeVars, rangeVars, l4>>

NextObj ==
    \/ \E cls \in {"IPv4Obj", "IPv6Obj"}, strict \in BOOLEAN :
         NewFromObj(cls, strict)
    \/ \E p \in -1..(MaxPrefix6 + 1) : AssignPrefixlen(p)
    \/ AssignBack
    \/ NewFromZeropadded
    \/ IterStart
    \/ IterNext
    \/ \E n \in Deltas : AddInt(n)
    \/ \E n \in Deltas : SubInt(n)
    \/ SubBack
    \/ Rebind

SpecObj == InitObj /\ [][NextObj]_vars

\* --------------------------------------------- comparison and containment
InitCmp ==
    /\ x \in Values
    /\ y \in Values \cup {Foreign}
    /\ out = NoOut
    /\ prefix_list = <<>>
    /\ rt_table = <<>>
    /\ addr = None
    /\ route = None
    /\ l4 = NoL4
    /\ InitNoRange

Compare(op, r) ==
    /\ out' = [NoOut EXCEPT !.op = op, !.err = r.err, !.b = r.b]
    /\ UNCHANGED <<x, y, routeVars, rangeVars, l4>>

\* x == y
DoEq == Compare("eq", Eq(x, y))
\* x < y
DoLt == Compare("lt", Lt(x, y))
\* x > y
DoGt == Compare("gt", Gt(x, y))
\* y in x
DoContains == Compare("contains", Contains(x, y))

NextCmp == DoEq \/ DoLt \/ DoGt \/ DoContains

SpecCmp == InitCmp /\ [][NextCmp]_vars

\* ------------------------------------------------------ longest-match lookup
InitRoute ==
    /\ x = None
    /\ y = None
    /\ out = NoOut
    /\ prefix_list = <<>>
    /\ rt_table = <<>>
    /\ addr = None
    /\ route = None
    /\ l4 = NoL4
    /\ InitNoRange

\* prefix_list.append(IPv4Obj(text))
AppendRoute(arg) ==
    /\ addr = None
    /\ Len(prefix_list) < MaxRoutes
    /\ IPv4Obj(arg, FALSE).err = NoErr
    /\ prefix_list' = Append(prefix_list, IPv4Obj(arg, FALSE).val)
    /\ UNCHANGED <<objVars, rt_table, addr, route, rangeVars, l4>>

\* rt_table = sorted(prefix_list, reverse=True); addr = IPv4Obj("A.B");
\* route = the first route of rt_table with addr in route
Lookup(arg) ==
    /\ addr = None
    /\ IPv4Obj(arg, FALSE).err = NoErr
    /\ addr' = IPv4Obj(arg, FALSE).val
    /\ rt_table' = sorted_reverse(prefix_list)
    /\ route' = first_match(rt_table', addr')
    /\ UNCHANGED <<objVars, prefix_list, rangeVars, l4>>

\* the route texts "A.B/len" and the address texts "A.B"
RouteTexts == {a \in Str4Args : a.kind = "len"}
AddrTexts == {a \in Str4Args : a.kind = "addr"}

NextRoute ==
    \/ \E arg \in RouteTexts : AppendRoute(arg)
    \/ \E arg \in AddrTexts : Lookup(arg)

SpecRoute == InitRoute /\ [][NextRoute]_vars

\* ------------------------------------------------- CiscoRange: input texts
\* the texts of the indexes, and the atoms "n" and "begin-end" (begin > end
\* included)
AtomTexts ==
    {str(v) : v \in 0..MaxIndex}
    \cup {str(a) \o <<"-">> \o str(b) : a \in 0..MaxIndex, b \in 0..MaxIndex}

\* expressions of one atom, and of two atoms one of which is an index
ExprTexts ==
    AtomTexts
    \cup {a \o <<",">> \o str(v) : a \in AtomTexts, v \in 0..MaxIndex}
    \cup {str(v) \o <<",">> \o a : v \in 0..MaxIndex, a \in AtomTexts}

\* line_prefix + slot_prefix of the prefixed texts
Eth == <<"E", "1", "/">>

\* texts of other shapes: empty, two ranges sharing indexes, a prefix ahead of
\* two atoms, whitespace, a leading zero, a line prefix only, a longer slot
\* prefix, and malformed ones
OddTexts ==
    {<<>>, <<"0", "-", "1", ",", "1", "-", "2">>,
     <<"E", "1", "/", "0", "-", "2", ",", "2">>,
     <<" ", "1", " ", "-", " ", "2">>, <<"0", "1">>, <<"E", " ", "1">>,
     <<"E", "1", "/", "1", "/", "0", "-", "1">>,
     <<"1", "-">>, <<"-", "1">>, <<"E">>, <<"1", "/", "/", "1">>,
     <<"1", "-", "2", "-", "0">>, <<"1", ",", ",", "2">>,
     <<"E", "1", "/", "1", ",", "E", "1", "/", "2">>}

\* the texts given to insert, append and remove
ValTexts ==
    {str(1), str(1) \o <<"-">> \o str(2),
     str(MaxIndex) \o <<",">> \o str(0), str(2) \o <<"-">> \o str(1),
     Eth \o str(1), <<"-">> \o str(1)}

\* positions before, at and after the head of the list
Positions == {-1, 0, MaxPosition}

\* -------------------------------------- CiscoRange: expand and compress
\* the state after self = CiscoRange(text, result_type); a raised exception
\* leaves no object
InitExpand ==
    /\ x = None
    /\ y = None
    /\ out = NoOut
    /\ prefix_list = <<>>
    /\ rt_table = <<>>
    /\ addr = None
    /\ route = None
    /\ l4 = NoL4
    /\ other = NoRange
    /\ \E text \in ExprTexts \cup {Eth \o a : a \in AtomTexts} \cup OddTexts,
          rt \in {"str", "int"} :
         \E c \in {CiscoRange_init(text, rt)} :
             /\ self \in Orders(c)
             /\ ret = [NoRet EXCEPT !.op = "new", !.val = text,
                                    !.result_type = rt, !.err = c.err]

\* other = CiscoRange(self.compressed_str); other.compressed_str
Reparse ==
    /\ self # NoRange
    /\ other = NoRange
    /\ \E r \in {compressed_str(self)} :
         /\ r.err = NoErr
         /\ \E c \in {CiscoRange_init(r.s, "str")} :
              /\ other' \in Orders(c)
              /\ \E r2 \in {compressed_str(other')} :
                   ret' = [NoRet EXCEPT !.op = "reparse", !.val = r.s,
                                        !.err = IF c.err # NoErr THEN c.err
                                                ELSE r2.err,
                                        !.s = r2.s]
    /\ UNCHANGED <<self, objVars, routeVars, l4>>

SpecExpand == InitExpand /\ [][Reparse]_vars

\* ---------------------------------------------------- CiscoRange: mutate
\* the texts the mutated object is built from
SelfTexts ==
    {<<>>, str(2) \o <<"-">> \o str(MaxIndex), str(0) \o <<",">> \o str(2),
     Eth \o str(1), Eth \o str(0) \o <<"-">> \o str(2),
     str(2) \o <<"-">> \o str(1), str(1) \o <<"/", "/">> \o str(1)}

InitRange ==
    /\ x = None
    /\ y = None
    /\ out = NoOut
    /\ prefix_list = <<>>
    /\ rt_table = <<>>
    /\ addr = None
    /\ route = None
    /\ l4 = NoL4
    /\ other = NoRange
    /\ \E text \in SelfTexts, rt \in {"str", "int"} :
         \E c \in {CiscoRange_init(text, rt)} :
             /\ self \in Orders(c)
             /\ ret = [NoRet EXCEPT !.op = "new", !.val = text,
                                    !.result_type = rt, !.err = c.err]

\* self.insert(ii, val)
Insert(ii, val) ==
    /\ self # NoRange
    /\ \E r \in CiscoRange_insert(self, ii, val) :
         /\ self' = r.val
         /\ ret' = [NoRet EXCEPT !.op = "insert", !.val = val, !.ii = ii,
                                 !.err = r.err, !.before = self]
    /\ UNCHANGED <<other, objVars, routeVars, l4>>

\* self.append(val)
AppendVal(val) ==
    /\ self # NoRange
    /\ \E r \in CiscoRange_append(self, val) :
         /\ self' = r.val
         /\ ret' = [NoRet EXCEPT !.op = "append", !.val = val, !.err = r.err,
                                 !.before = self]
    /\ UNCHANGED <<other, objVars, routeVars, l4>>

\* self.remove(arg)
Remove(arg) ==
    /\ self # NoRange
    /\ \E r \in {CiscoRange_remove(self, arg)} :
         /\ self' = r.val
         /\ ret' = [NoRet EXCEPT !.op = "remove", !.val = arg, !.err = r.err,
                                 !.before = self]
    /\ UNCHANGED <<other, objVars, routeVars, l4>>

\* self.remove(val) right after a successful self.insert(ii, val) or
\* self.append(val); before stays the object as it was ahead of the insert
RemoveInserted ==
    /\ ret.op \in {"insert", "append"}
    /\ ret.err = NoErr
    /\ \E r \in {CiscoRange_remove(self, ret.val)} :
         /\ self' = r.val
         /\ ret' = [ret EXCEPT !.op = "insert_remove", !.err = r.err]
    /\ UNCHANGED <<other, objVars, routeVars, l4>>

\* del self[ii]
DelItem(ii) ==
    /\ self # NoRange
    /\ \E r \in {CiscoRange_delitem(self, ii)} :
         /\ self' = r.val
         /\ ret' = [NoRet EXCEPT !.op = "del", !.ii = ii, !.err = r.err,
                                 !.before = self]
    /\ UNCHANGED <<other, objVars, routeVars, l4>>

\* self[ii] = val
SetItem(ii, val) ==
    /\ self # NoRange
    /\ \E r \in {CiscoRange_setitem(self, ii, val)} :
         /\ self' = r.val
         /\ ret' = [NoRet EXCEPT !.op = "setitem", !.val = val, !.ii = ii,
                                 !.err = r.err, !.before = self]
    /\ UNCHANGED <<other, objVars, routeVars, l4>>

\* self.compressed_str
Compress ==
    /\ self # NoRange
    /\ \E r \in {compressed_str(self)} :
         ret' = [NoRet EXCEPT !.op = "compressed_str", !.err = r.err,
                              !.s = r.s]
    /\ UNCHANGED <<self, other, objVars, routeVars, l4>>

NextRange ==
    \/ \E ii \in Positions, val \in ValTexts : Insert(ii, val)
    \/ \E val \in ValTexts : AppendVal(val)
    \/ \E arg \in ValTexts : Remove(arg)
    \/ RemoveInserted
    \/ \E ii \in Positions : DelItem(ii)
    \/ \E ii \in Positions, val \in ValTexts : SetItem(ii, val)
    \/ Compress

SpecRange == InitRange /\ [][NextRange]_vars

\* ------------------------------------------------ CiscoRange: equality
\* the texts the two compared objects are built from and are appended
EqTexts ==
    {str(1), str(2), str(2) \o <<",">> \o str(1), Eth \o str(1),
     lower(Eth) \o str(1), Eth \o str(1) \o <<"-">> \o str(2)}
EqVals == {str(1), str(2), lower(Eth) \o str(2)}

InitRangeEq ==
    /\ x = None
    /\ y = None
    /\ out = NoOut
    /\ prefix_list = <<>>
    /\ rt_table = <<>>
    /\ addr = None
    /\ route = None
    /\ l4 = NoL4
    /\ ret = NoRet
    /\ \E text \in EqTexts, rt \in {"str", "int"} :
         \E c \in {CiscoRange_init(text, rt)} :
             c.err = NoErr /\ self \in Orders(c)
    /\ \E text \in EqTexts, rt \in {"str", "int"} :
         \E c \in {CiscoRange_init(text, rt)} :
             c.err = NoErr /\ other \in Orders(c)

\* other.append(val)
AppendOther(val) ==
    /\ \E r \in CiscoRange_append(other, val) :
         /\ other' = r.val
         /\ ret' = [NoRet EXCEPT !.op = "append_other", !.val = val,
                                 !.err = r.err, !.before = other]
    /\ UNCHANGED <<self, objVars, routeVars, l4>>

\* self == other
RangeEq ==
    /\ ret' = [NoRet EXCEPT !.op = "eq", !.b = CiscoRange_eq(self, other)]
    /\ UNCHANGED <<self, other, objVars, routeVars, l4>>

NextRangeEq ==
    \/ \E val \in EqVals : AppendVal(val)
    \/ \E val \in EqVals : AppendOther(val)
    \/ RangeEq

SpecRangeEq == InitRangeEq /\ [][NextRangeEq]_vars

\* ----------------------------------------------------------------- L4Object
\* the port_spec texts: the operator word, then one port, or two for range
PortSpec(op, a, b) ==
    (IF op = <<>> THEN <<>> ELSE op \o <<" ">>)
    \o str(a)
    \o (IF op = <<"r", "a", "n", "g", "e">> THEN <<" ">> \o str(b) ELSE <<>>)

InitL4 ==
    /\ x = None
    /\ y = None
    /\ out = NoOut
    /\ prefix_list = <<>>
    /\ rt_table = <<>>
    /\ addr = None
    /\ route = None
    /\ InitNoRange
    /\ l4 = NoL4

\* l4 = L4Object(protocol, port_spec, syntax), port_spec being op a, or
\* range a b; op, a and b are kept next to the object
NewL4(protocol, op, a, b, syntax) ==
    /\ \E r \in {L4Object(protocol, PortSpec(op, a, b), syntax)} :
         l4' = [r EXCEPT !.op = op, !.a = a, !.b = b]
    /\ UNCHANGED <<objVars, routeVars, rangeVars>>

SpecL4 ==
    InitL4
    /\ [][\E protocol \in {"tcp", "udp", "icmp"}, syntax \in {"asa", "ios"},
            op \in {<<>>, <<"e", "q">>, <<"n", "e", "q">>, <<"l", "t">>,
                    <<"g", "t">>, <<"r", "a", "n", "g", "e">>},
            a \in 0..PortEnd :
            \E b \in IF op = <<"r", "a", "n", "g", "e">> THEN 0..PortEnd
                      ELSE {0} :
                NewL4(protocol, op, a, b, syntax)]_vars

\* ===================================================================== claims
SameFamily == IsObj(x) /\ IsObj(y) /\ x.dna = y.dna
ExactlyOne(a, b, c) == (a /\ ~b /\ ~c) \/ (~a /\ b /\ ~c) \/ (~a /\ ~b /\ c)
MaxPrefixOf(o) == IF o.dna = "IPv4Obj" THEN MaxPrefix4 ELSE MaxPrefix6
MaxOf(o) == IF o.dna = "IPv4Obj" THEN Max4 ELSE Max6
ClearLow(v, k) == v - (v % (2 ^ k))
HasHostBits(o) == as_decimal(o) % (2 ^ (MaxPrefixOf(o) - prefixlen(o))) # 0
\* lexicographic "less" on (network, prefix length, host address)
LexLess(a, b) ==
    \/ as_decimal_network(a) < as_decimal_network(b)
    \/ /\ as_decimal_network(a) = as_decimal_network(b)
       /\ prefixlen(a) < prefixlen(b)
    \/ /\ as_decimal_network(a) = as_decimal_network(b)
       /\ prefixlen(a) = prefixlen(b)
       /\ as_decimal(a) < as_decimal(b)
SameKeys(a, b) ==
    /\ as_decimal_network(a) = as_decimal_network(b)
    /\ prefixlen(a) = prefixlen(b)
    /\ as_decimal(a) = as_decimal(b)

\* C1: for x, y of one family exactly one of x < y, x == y, x > y holds,
\* x < y iff y > x, and x < y and y < c imply x < c for every value c.
C1_StrictTotalOrder ==
    (SameFamily /\ out.op = "lt") =>
        /\ ExactlyOne(out.b, Eq(x, y).b, Gt(x, y).b)
        /\ (out.b <=> Gt(y, x).b)
        /\ \A c \in Values :
             (c.dna = x.dna /\ out.b /\ Lt(y, c).b) => Lt(x, c).b

\* C2: x < y (x > y) is the lexicographic comparison of the triples
\* (as_decimal_network, prefixlen, as_decimal) of x and y.
C2_LexicographicOrder ==
    /\ (SameFamily /\ out.op = "lt") =>
           (out.err = NoErr /\ (out.b <=> LexLess(x, y)))
    /\ (SameFamily /\ out.op = "gt") =>
           (out.err = NoErr /\ (out.b <=> LexLess(y, x)))

\* x < y decided by the prefix length: equal networks, x has the shorter mask
C2_Witness ==
    /\ SameFamily /\ out.op = "lt" /\ out.b
    /\ as_decimal_network(x) = as_decimal_network(y)
    /\ prefixlen(x) < prefixlen(y)
    /\ as_decimal(x) > as_decimal(y)

\* C3: x == y iff network address, prefix length and host address agree, and
\* then iff neither x < y nor x > y.
C3_EqualityAgreesWithOrder ==
    (SameFamily /\ out.op = "eq") =>
        /\ out.b <=> SameKeys(x, y)
        /\ out.b <=> (~Lt(x, y).b /\ ~Gt(x, y).b)

\* the span [network address, network address + numhosts - 1] of a encloses b's
SpanEncloses(a, b) ==
    /\ as_decimal_network(a) <= as_decimal_network(b)
    /\ as_decimal_network(b) + numhosts(b) - 1
         <= as_decimal_network(a) + numhosts(a) - 1

\* C5: "y in x" is true iff the span of x's network encloses the span of y's;
\* a /0 contains everything, a longer prefix never contains a shorter one, and
\* the answer is the same for every value with y's (x's) network and prefix
\* length, whatever its host bits.
C5_ContainsOnNetworkBoundaries ==
    (SameFamily /\ out.op = "contains") =>
        /\ out.err = NoErr
        /\ out.b <=> SpanEncloses(x, y)
        /\ prefixlen(x) = 0 => out.b
        /\ prefixlen(x) > prefixlen(y) => ~out.b
        /\ \A v \in Values :
             (v.dna = y.dna /\ v.net = y.net /\ v.plen = y.plen) =>
                 /\ Contains(x, v).b = out.b
        /\ \A v \in Values :
             (v.dna = x.dna /\ v.net = x.net /\ v.plen = x.plen) =>
                 /\ Contains(v, y).b = out.b

\* y in x holds although x's host address lies above y's: both carry host bits
C5_Witness ==
    /\ SameFamily /\ out.op = "contains" /\ out.b
    /\ prefixlen(x) > 0 /\ prefixlen(x) < prefixlen(y)
    /\ HasHostBits(x) /\ HasHostBits(y)
    /\ as_decimal(x) > as_decimal(y)

\* C9: a comparison or containment test between values of different types
\* raises instead of returning a boolean.
C9_IncompatibleTypesRaise ==
    (out.op \in {"eq", "lt", "gt", "contains"} /\ x.dna # y.dna) =>
        out.err # NoErr

\* the routes of the table that contain the address looked up
Matching == {i \in 1..Len(prefix_list) : Contains(prefix_list[i], addr).b}

\* C4: the first route of the descending table that contains addr has the
\* longest prefix of all routes of the table that contain addr.
C4_LongestMatch ==
    addr # None =>
        /\ Matching = {} => route = None
        /\ Matching # {} =>
             /\ \E i \in Matching : route = prefix_list[i]
             /\ \A i \in Matching : prefixlen(prefix_list[i]) <= prefixlen(route)

\* two routes of different length contain addr, and the table lists the
\* shorter one first
C4_Witness ==
    /\ addr # None
    /\ Len(prefix_list) >= 2
    /\ {1, 2} \subseteq Matching
    /\ prefixlen(prefix_list[1]) > 0
    /\ prefixlen(prefix_list[1]) < prefixlen(prefix_list[2])
    /\ route = prefix_list[2]

\* the number an address text writes
Written(arg) ==
    DigitsToInt(arg.addr, IF arg.t = "str4" THEN OctetBase ELSE HextetBase)
NetworkIsDerived(o) ==
    o # None =>
        as_decimal_network(o)
          = ClearLow(as_decimal(o), MaxPrefixOf(o) - prefixlen(o))

\* C6: a non-strict construction from text stores the host address as written,
\* and in every state as_decimal_network is as_decimal with its low
\* (max_prefix - prefixlen) bits cleared.
C6_HostBitRetention ==
    /\ (out.op = "new" /\ ~out.strict /\ out.arg.t \in {"str4", "str6"}
          /\ x # None) => as_decimal(x) = Written(out.arg)
    /\ NetworkIsDerived(x)
    /\ NetworkIsDerived(y)

InRange(o, total) == 0 <= total /\ total <= MaxOf(o)
ArithmeticResult(total) ==
    IF InRange(x, total)
    THEN /\ out.err = NoErr
         /\ y # None
         /\ y.dna = x.dna
         /\ as_decimal(y) = total
         /\ prefixlen(y) = prefixlen(x)
    ELSE out.err # NoErr /\ y = None

\* C7: x + n (x - n) is a new value with as_decimal(x) + n (- n) and x's prefix
\* length when that lies in [0, max]; otherwise it raises, and nothing wraps
\* or clamps.
C7_ArithmeticInRangeOrError ==
    /\ out.op = "add" => ArithmeticResult(as_decimal(x) + out.n)
    /\ out.op = "sub" => ArithmeticResult(as_decimal(x) - out.n)

\* an addition on a value with host bits and a short prefix succeeded, and one
\* step further it would have left the range
C7_Witness ==
    /\ out.op = "add" /\ out.err = NoErr /\ out.n > 0
    /\ x.dna = "IPv4Obj" /\ HasHostBits(x) /\ prefixlen(x) < MaxPrefix4
    /\ as_decimal(y) = Max4

\* C8: (x + n) - n == x whenever x + n is in range.
C8_ArithmeticRoundTrip ==
    out.op = "add_sub" =>
        /\ out.err = NoErr
        /\ y # None
        /\ Eq(y, x).err = NoErr
        /\ Eq(y, x).b

C8_Witness ==
    /\ out.op = "add_sub" /\ out.n # 0
    /\ x.dna = "IPv4Obj" /\ HasHostBits(x) /\ prefixlen(x) < MaxPrefix4
    /\ y # None

\* the argument of a construction has host bits below its prefix length
ArgHasHostBits(cls, arg) ==
    \/ /\ arg.t = "obj" /\ arg.obj.dna = cls
       /\ HasHostBits(arg.obj)
    \/ /\ arg.t = "str4" /\ cls = "IPv4Obj" /\ arg.kind \in {"mask", "len"}
       /\ IPv4Obj(arg, FALSE).err = NoErr
       /\ HasHostBits(IPv4Obj(arg, FALSE).val)
    \/ /\ arg.t = "str6" /\ cls = "IPv6Obj" /\ arg.kind = "hex"
       /\ IPv6Obj(arg, FALSE).err = NoErr
       /\ HasHostBits(IPv6Obj(arg, FALSE).val)

\* C10: with strict=True an input with host bits is rejected with ValueError,
\* with strict=False the same input is accepted.
C10_StrictRejectsHostBits ==
    (out.op = "new" /\ ArgHasHostBits(out.cls, out.arg)) =>
        /\ out.strict => (out.err = "ValueError" /\ x = None)
        /\ ~out.strict => (out.err = NoErr /\ x # None)

\* ------------------------------------------------------- CiscoRange claims
\* the prefix line_prefix + slot_prefix of an object
PrefixOf(obj) == obj.line_prefix \o obj.slot_prefix

\* the numeric index of an item: the integer itself, or the number written by
\* the digits a text ends on
ItemIndex(e) ==
    IF e.t = "int" THEN e.n
    ELSE LET k == CHOOSE i \in 0..Len(e.s) :
                    /\ \A j \in (i + 1)..Len(e.s) : isdigit(e.s[j])
                    /\ (i = 0 \/ ~isdigit(e.s[i]))
         IN int(SubSeq(e.s, k + 1, Len(e.s))).n

IndexSet(obj) == {ItemIndex(obj.list[i]) : i \in 1..Len(obj.list)}

\* the item a label P + str(v) is rendered as: the label itself as a text, or
\* the integer v when the result type is int (the prefix being empty)
Rendered(rt, P, v) == IF rt = "str" THEN StrItem(P \o str(v)) ELSE IntItem(v)

\* an expression as the grammar describes it: a prefix and one or two atoms,
\* each the index begin or the range begin-end with begin <= end
Atoms ==
    {t \in [begin : 0..MaxIndex, end : 0..MaxIndex, dash : BOOLEAN] :
        t.begin <= t.end /\ (t.dash \/ t.begin = t.end)}
Exprs ==
    {[P |-> P, atoms |-> ats] :
        P \in {<<>>, Eth}, ats \in {<<a>> : a \in Atoms}
                                \cup {<<a, b>> : a \in Atoms, b \in Atoms}}
AtomText(a) ==
    IF a.dash THEN str(a.begin) \o <<"-">> \o str(a.end) ELSE str(a.begin)
ExprText(e) ==
    e.P \o (IF Len(e.atoms) = 1 THEN AtomText(e.atoms[1])
            ELSE AtomText(e.atoms[1]) \o <<",">> \o AtomText(e.atoms[2]))
ExprIndexes(e) ==
    UNION {e.atoms[i].begin..e.atoms[i].end : i \in 1..Len(e.atoms)}

\* the valid expressions by their text, each with its prefix and its indexes
Meaning ==
    [t \in {ExprText(e) : e \in Exprs} |->
        LET e == CHOOSE e \in Exprs : ExprText(e) = t
        IN [P |-> e.P, indexes |-> ExprIndexes(e)]]
IsExpr(t) == t \in DOMAIN Meaning

\* the items the expansion of the expression t stands for, as items of an
\* object of result type rt: none when they cannot be written in that type
Expansion(rt, t) ==
    IF rt = "int" /\ Meaning[t].P # <<>> THEN {}
    ELSE {Rendered(rt, Meaning[t].P, v) : v \in Meaning[t].indexes}

\* C11: after construction and after every insert, append, remove and item
\* deletion the item list is in ascending order of numeric index
C11_SortedByIndex ==
    self # NoRange =>
        \A i \in 1..(Len(self.list) - 1) :
            ItemIndex(self.list[i]) <= ItemIndex(self.list[i + 1])

\* C12: after construction and after every insert, append, remove and item
\* deletion no item occurs twice in the item list
C12_NoDuplicateItem ==
    self # NoRange =>
        \A i \in 1..Len(self.list), j \in 1..Len(self.list) :
            i # j => self.list[i] # self.list[j]

\* an insert of indexes the list already held, next to new ones
C12_Witness ==
    /\ ret.op \in {"insert", "append"}
    /\ ret.err = NoErr
    /\ IsExpr(ret.val)
    /\ \E e \in Expansion(self.result_type, ret.val) :
            e \in SetOfList(ret.before.list)
    /\ \E e \in Expansion(self.result_type, ret.val) :
            e \notin SetOfList(ret.before.list)
    /\ Len(self.list) >= 3

\* C13: a valid expression with prefix P and atoms n or start-end, start <=
\* end, expands to exactly the items P + str(v) for the v in some atom's
\* range, bounds included, each once
C13_Expansion ==
    (ret.op = "new" /\ IsExpr(ret.val)
       /\ (ret.result_type = "str" \/ Meaning[ret.val].P = <<>>))
    => /\ ret.err = NoErr
       /\ self.result_type = ret.result_type
       /\ SetOfList(self.list) = Expansion(self.result_type, ret.val)
       /\ Len(self.list) = Cardinality(Meaning[ret.val].indexes)
       /\ PrefixOf(self) = Meaning[ret.val].P

\* a prefixed expression of two atoms sharing an index
C13_Witness ==
    /\ ret.op = "new"
    /\ ret.err = NoErr
    /\ ret.val = Eth \o str(0) \o <<"-">> \o str(2) \o <<",">> \o str(2)
    /\ Len(self.list) = 3

\* C20: every item is the prefix of its object followed by an index, and
\* compressed_str succeeds
C20_ItemsCarryOwnPrefix ==
    self # NoRange
    => /\ \A i \in 1..Len(self.list) :
            self.list[i] = Rendered(self.result_type, PrefixOf(self),
                                    ItemIndex(self.list[i]))
       /\ compressed_str(self).err = NoErr

\* the canonical expression of a set S of indexes, from lo on: in ascending
\* order, a maximal run of three or more consecutive indexes as first-last,
\* the members of a shorter run one by one
RunEnd(S, a) == CHOOSE b \in S : b >= a /\ (a..b) \subseteq S /\ (b + 1) \notin S
RunText(a, b) ==
    IF b - a >= 2 THEN str(a) \o <<"-">> \o str(b)
    ELSE IF b = a + 1 THEN str(a) \o <<",">> \o str(b)
    ELSE str(a)
RECURSIVE Canonical(_)
Canonical(S) ==
    LET a == CHOOSE v \in S : \A w \in S : v <= w
        b == RunEnd(S, a)
        rest == {v \in S : v > b}
    IN IF rest = {} THEN RunText(a, b)
       ELSE RunText(a, b) \o <<",">> \o Canonical(rest)

\* C14: compressed_str is the prefix, once, followed by the canonical
\* expression of the indexes; the empty list gives the empty text
C14_Compression ==
    (ret.op = "compressed_str" /\ ret.err = NoErr)
    => ret.s = IF self.list = <<>> THEN <<>>
               ELSE PrefixOf(self) \o Canonical(IndexSet(self))

\* a prefixed list holding a run of three indexes
C14_Witness ==
    /\ ret.op = "compressed_str"
    /\ ret.err = NoErr
    /\ ret.s = Eth \o str(0) \o <<"-">> \o str(2)
    /\ Len(self.list) = 3
    /\ C20_ItemsCarryOwnPrefix

\* C15: CiscoRange(r.compressed_str) has the prefix and the indexes of r, and
\* the compressed_str of the object built from a canonical expression is that
\* expression
C15_RoundTrip ==
    ret.op = "reparse"
    => /\ ret.err = NoErr
       /\ other.line_prefix = self.line_prefix
       /\ other.slot_prefix = self.slot_prefix
       /\ IndexSet(other) = IndexSet(self)
       /\ Len(other.list) = Len(self.list)
       /\ ret.s = ret.val

\* the round trip of a prefixed range of three or more indexes
C15_Witness ==
    /\ ret.op = "reparse"
    /\ ret.err = NoErr
    /\ self.slot_prefix # <<>>
    /\ Len(other.list) >= 3
    /\ \E i \in 1..Len(ret.val) : ret.val[i] = "-"

\* the outcome of an operation that succeeds and leaves the object obj
Ok(obj) == [err |-> NoErr, val |-> obj]

\* C16: insert(p, v) leaves the old items united with the expansion of v, the
\* same list for every position p, the list append(v) leaves, and the list a
\* second insert of v leaves
C16_InsertIsUnion ==
    (ret.op \in {"insert", "append"} /\ ret.err = NoErr /\ IsExpr(ret.val))
    => /\ SetOfList(self.list) =
            SetOfList(ret.before.list)
            \cup Expansion(self.result_type, ret.val)
       /\ \A p \in Positions \cup {Len(ret.before.list)} :
            CiscoRange_insert(ret.before, p, ret.val) = {Ok(self)}
       /\ CiscoRange_append(ret.before, ret.val) = {Ok(self)}
       /\ \A p \in Positions : CiscoRange_insert(self, p, ret.val) = {Ok(self)}

\* an insert before the end of a list, of two items of which one is new
C16_Witness ==
    /\ ret.op = "insert"
    /\ ret.err = NoErr
    /\ ret.ii = -1
    /\ Len(ret.before.list) >= 2
    /\ Len(self.list) = Len(ret.before.list) + 1
    /\ IsExpr(ret.val)
    /\ Cardinality(Expansion(self.result_type, ret.val)) = 2

\* C17: remove(v) takes out the items of the expansion of v and no other,
\* raises no error when none of them is in the list, and changes nothing when
\* done again
C17_RemoveFrame ==
    (ret.op = "remove" /\ IsExpr(ret.val))
    => /\ ret.err = NoErr
       /\ self.list =
            SelectSeq(ret.before.list,
                      LAMBDA e : e \notin Expansion(self.result_type, ret.val))
       /\ (Expansion(self.result_type, ret.val)
             \cap SetOfList(ret.before.list) = {} => self = ret.before)
       /\ CiscoRange_remove(self, ret.val) = Ok(self)

\* a remove of two items of which one only is in the list, others staying
C17_Witness ==
    /\ ret.op = "remove"
    /\ ret.err = NoErr
    /\ IsExpr(ret.val)
    /\ Cardinality(Expansion(self.result_type, ret.val)) = 2
    /\ Len(self.list) = Len(ret.before.list) - 1
    /\ Len(self.list) >= 1

\* C18: insert(p, v) followed by remove(v) leaves the items the object had
\* before the insert
C18_InsertRemoveRestores ==
    ret.op = "insert_remove"
    => SetOfList(self.list) = SetOfList(ret.before.list)

\* C18, amended: insert(p, v) followed by remove(v) leaves the items the
\* object had before the insert when none of the items of v was among them
C18_InsertRemoveRestoresDisjoint ==
    (ret.op = "insert_remove" /\ IsExpr(ret.val)
       /\ Expansion(self.result_type, ret.val)
            \cap SetOfList(ret.before.list) = {})
    => /\ ret.err = NoErr
       /\ SetOfList(self.list) = SetOfList(ret.before.list)

\* two new items inserted into a list of two and removed again
C18_Witness ==
    /\ ret.op = "insert_remove"
    /\ ret.err = NoErr
    /\ IsExpr(ret.val)
    /\ Cardinality(Expansion(self.result_type, ret.val)) = 2
    /\ Expansion(self.result_type, ret.val)
         \cap SetOfList(ret.before.list) = {}
    /\ Len(ret.before.list) = 2
    /\ Len(self.list) = 2

\* C19: self == other is true exactly when the lower-cased prefixes are the
\* same text and the two objects hold the same indexes
C19_Equality ==
    ret.op = "eq"
    => ret.b = (/\ lower(PrefixOf(self)) = lower(PrefixOf(other))
                /\ IndexSet(self) = IndexSet(other))

\* ------------------------------------------- address claims, construction
\* the largest address of a class
MaxOfClass(cls) == IF cls = "IPv4Obj" THEN Max4 ELSE Max6
MaxPrefixOfClass(cls) == IF cls = "IPv4Obj" THEN MaxPrefix4 ELSE MaxPrefix6

AskedLen(arg) ==
    IF arg.t = "str4" /\ arg.kind = "len" THEN arg.len
    ELSE IF arg.t = "str6" /\ arg.kind \in {"hex", "dotted"} THEN arg.len
    ELSE -1

\* C22: the prefix length of every object is within 0..max of its class; a
\* construction or an assignment with a length outside it raises, and the
\* failed assignment leaves the object as it was
C22_PrefixlenInRange ==
    /\ x # None => 0 <= prefixlen(x) /\ prefixlen(x) <= MaxPrefixOf(x)
    /\ y # None => 0 <= prefixlen(y) /\ prefixlen(y) <= MaxPrefixOf(y)
    /\ (out.op = "new" /\ AskedLen(out.arg) > MaxPrefixOfClass(out.cls))
       => (out.err # NoErr /\ x = None)
    /\ (out.op = "prefixlen"
          /\ (out.n < 0 \/ out.n > MaxPrefixOf(out.before)))
       => (out.err # NoErr /\ x = out.before)

\* a failed assignment to an IPv4Obj with host bits set
C22_Witness ==
    /\ out.op = "prefixlen"
    /\ out.n = MaxPrefix4 + 1
    /\ out.err # NoErr
    /\ x.dna = "IPv4Obj"
    /\ HasHostBits(x)

\* C24: the copy of an object of the same class succeeds and equals the
\* object, with its host address and its prefix length; the object built from
\* a network value has the network's address and the network's prefix length
C24_CopyConstruction ==
    /\ (out.op = "new" /\ out.arg.t = "obj" /\ out.arg.obj.dna = out.cls)
       => /\ out.err = NoErr
          /\ Eq(x, out.arg.obj) = [err |-> NoErr, b |-> TRUE]
          /\ as_decimal(x) = as_decimal(out.arg.obj)
          /\ prefixlen(x) = prefixlen(out.arg.obj)
    /\ (out.op = "new"
          /\ \/ out.arg.t = "net4" /\ out.cls = "IPv4Obj"
             \/ out.arg.t = "net6" /\ out.cls = "IPv6Obj")
       => /\ out.err = NoErr
          /\ as_decimal(x) = out.arg.n
          /\ as_decimal_network(x) = out.arg.n
          /\ prefixlen(x) = out.arg.len

\* the copy of an IPv4Obj with host bits set and a prefix shorter than full
C24_Witness ==
    /\ out.op = "new"
    /\ out.arg.t = "obj"
    /\ out.cls = "IPv4Obj"
    /\ out.err = NoErr
    /\ HasHostBits(x)
    /\ prefixlen(x) < MaxPrefix4

\* ---------------------------------------- address claims, prefixlen, order
\* C27: a successful assignment of prefixlen leaves as_decimal as it was and
\* makes the network the host address with the low bits cleared; assigning
\* the former length again gives an object equal to the original
C27_PrefixlenAssignment ==
    /\ (out.op = "prefixlen" /\ out.err = NoErr)
       => /\ as_decimal(x) = as_decimal(out.before)
          /\ prefixlen(x) = out.n
          /\ as_decimal_network(x) =
                ClearLow(as_decimal(x), MaxPrefixOf(x) - out.n)
    /\ out.op = "prefixlen_back"
       => /\ out.err = NoErr
          /\ Eq(x, out.before) = [err |-> NoErr, b |-> TRUE]
          /\ as_decimal(x) = as_decimal(out.before)
          /\ prefixlen(x) = prefixlen(out.before)

\* an IPv4Obj with host bits set given another prefix and its own again
C27_Witness ==
    /\ out.op = "prefixlen_back"
    /\ out.err = NoErr
    /\ x.dna = "IPv4Obj"
    /\ out.n # prefixlen(x)
    /\ HasHostBits(x)

\* C28: for n > 0, a successful a + n is greater than a, a is less than
\* a + n, and a successful a - n is less than a
C28_ArithmeticMonotone ==
    /\ (out.op = "add" /\ out.err = NoErr /\ out.n > 0)
       => /\ Gt(y, x) = [err |-> NoErr, b |-> TRUE]
          /\ Lt(x, y) = [err |-> NoErr, b |-> TRUE]
    /\ (out.op = "sub" /\ out.err = NoErr /\ out.n > 0)
       => Lt(y, x) = [err |-> NoErr, b |-> TRUE]

\* ------------------------------------------- address claims, zero padding
\* the number an octet text writes, leading zeros counting for nothing
RECURSIVE OctetValue(_)
OctetValue(t) ==
    IF Len(t) > 1 /\ t[1] = "0" THEN OctetValue(Tail(t))
    ELSE CHOOSE v \in 0..(Len(Digits) ^ Len(t)) : str(v) = t
Unpadded(octets) == [i \in 1..Len(octets) |-> str(OctetValue(octets[i]))]

\* C25: a dotted text with zero-padded octets, each a legal octet value,
\* parses to the as_decimal of the text without the padding, and
\* IPv4Obj(x.as_zeropadded) has the as_decimal of x
C25_ZeroPadded ==
    /\ (out.op = "new_text"
          /\ \A i \in 1..Octets4 : OctetValue(out.arg.addr[i]) < OctetBase)
       => /\ out.err = NoErr
          /\ as_decimal(x) =
                DigitsToInt([i \in 1..Octets4 |-> OctetValue(out.arg.addr[i])],
                            OctetBase)
          /\ IPv4Obj_text(Unpadded(out.arg.addr), FALSE).val = x
    /\ out.op = "new_zeropadded"
       => /\ out.err = NoErr
          /\ \A i \in 1..Octets4 : Len(out.arg.addr[i]) = PadWidth
          /\ as_decimal(x) = as_decimal(out.before)

\* a text whose octets are written with leading zeros and are not all 0
C25_Witness ==
    /\ out.op = "new_text"
    /\ out.err = NoErr
    /\ \A i \in 1..Octets4 : Len(out.arg.addr[i]) > 1
    /\ as_decimal(x) = Max4

\* ------------------------------------------------ address claims, iteration
\* C26: an iteration yields, in ascending order from the network address,
\* the numhosts addresses of the network and then stops; a new iteration
\* starts at the network address again
C26_Iteration ==
    out.op = "iter"
    => /\ Len(out.seq) <= numhosts(x)
       /\ \A i \in 1..Len(out.seq) :
             out.seq[i] = as_decimal_network(x) + (i - 1)
       /\ out.b => Len(out.seq) = numhosts(x)

\* an iteration run to its end over a network of more than two addresses,
\* of an object with host bits set
C26_Witness ==
    /\ out.op = "iter"
    /\ out.b
    /\ Len(out.seq) > 2
    /\ HasHostBits(x)

\* ----------------------------------------- CiscoRange claims, errors, frame
\* the first comma-separated piece of t is not a prefix followed by atoms
Mismatch(t) == ~RGX_CISCO_RANGE(split(t, ",")[1]).mm
\* some atom of t is start-end with end < start
Backwards(t) ==
    /\ parse_range_text(t).err = NoErr
    /\ \E atom \in SetOfList(split(parse_range_text(t).range_text, ",")) :
         \E p \in {split(atom, "-")} :
            /\ Len(p) = 2
            /\ int(p[1]).err = NoErr
            /\ int(p[2]).err = NoErr
            /\ int(p[2]).n < int(p[1]).n

\* C23: construction from, and insert, append and remove of, an expression
\* that does not match the grammar or holds an atom with end < start raises;
\* the failed insert, append or remove leaves the object as it was
C23_BadExpressionFails ==
    /\ (ret.op = "new" /\ (Mismatch(ret.val) \/ Backwards(ret.val)))
       => (ret.err # NoErr /\ self = NoRange)
    /\ (ret.op \in {"insert", "append", "remove"}
          /\ (Mismatch(ret.val) \/ Backwards(ret.val)))
       => (ret.err # NoErr /\ self = ret.before)

\* an insert of an atom with end < start into a list of two or more items
C23_Witness ==
    /\ ret.op = "insert"
    /\ Backwards(ret.val)
    /\ ret.err # NoErr
    /\ Len(self.list) >= 2

\* the position ii of a list of n items counts from (-1: the last), 0 when
\* there is none
PositionOf(ii, n) ==
    IF ii < 0 /\ ii + n + 1 >= 1 THEN ii + n + 1
    ELSE IF ii >= 0 /\ ii + 1 <= n THEN ii + 1
    ELSE 0

\* C29: self[ii] = val at a valid index changes neither the items nor the
\* prefixes; del self[ii] takes out the item at ii and keeps the others in
\* their order
C29_SetItemFrame ==
    /\ (ret.op = "setitem" /\ PositionOf(ret.ii, Len(ret.before.list)) # 0)
       => (ret.err = NoErr /\ self = ret.before)
    /\ (ret.op = "del" /\ PositionOf(ret.ii, Len(ret.before.list)) # 0)
       => /\ ret.err = NoErr
          /\ self.line_prefix = ret.before.line_prefix
          /\ self.slot_prefix = ret.before.slot_prefix
          /\ self.list =
                [k \in 1..(Len(ret.before.list) - 1) |->
                    IF k < PositionOf(ret.ii, Len(ret.before.list))
                    THEN ret.before.list[k] ELSE ret.before.list[k + 1]]

\* an assignment to the last position of a list of three or more items
C29_Witness ==
    /\ ret.op = "setitem"
    /\ ret.ii = -1
    /\ ret.err = NoErr
    /\ Len(self.list) >= 3
    /\ StrItem(ret.val) \notin SetOfList(self.list)

\* ---------------------------------------------------------- L4Object claims
\* C30: for an asa tcp or udp port_spec, eq N gives the port list [N],
\* range A B the ports A to B, and neq N the ports 1 to the last but N
C30_PortSets ==
    (l4.syntax = "asa" /\ l4.protocol \in {"tcp", "udp"})
    => /\ l4.op = <<"e", "q">>
          => (l4.err = NoErr /\ l4.port_list = <<l4.a>>)
       /\ l4.op = <<"r", "a", "n", "g", "e">>
          => /\ l4.err = NoErr
             /\ l4.port_list = [i \in 1..(l4.b - l4.a + 1) |-> l4.a + (i - 1)]
       /\ (l4.op = <<"n", "e", "q">> /\ l4.a \in 1..(PortEnd - 1))
          => /\ l4.err = NoErr
             /\ \A q \in 1..(PortEnd - 1) :
                   (q # l4.a) = (\E i \in 1..Len(l4.port_list) :
                                    l4.port_list[i] = q)
             /\ \A i \in 1..Len(l4.port_list) : l4.port_list[i] # l4.a

====
